---- MODULE Spec2Model ----
(***************************************************************************)
(* Model of the lineup optimizer of the fantasy-sim backend:               *)
(* sortByValue, buildLineupStrict and generateLineups, driven by the       *)
(* POST /api/lineups/optimize handler.                                      *)
(*                                                                          *)
(* Units.  proj, projAdj and totalProj are fixed-point numbers in           *)
(* thousandths of a point (1234 is 1.234 points); salaries and caps are     *)
(* plain numbers; noise and temperature are exact rationals [num, den].    *)
(* Math.random() is drawn from the grid k / (2 * RandomHalfGrid).          *)
(***************************************************************************)
EXTENDS Integers, Sequences, FiniteSets, TLC

VARIABLES
  players,      \* the pool handed to the optimizer (array of player objects)
  req,          \* the request's options: sport, salaryCap, count, maxPerTeam, minDiff, triesPerLineup
  pc,           \* control position
  noise,        \* generateLineups: noise (also buildLineupStrict's argument)
  temperature,  \* generateLineups: temperature (also buildLineupStrict's argument)
  out,          \* generateLineups: accepted list
  seen,         \* generateLineups: set of id signatures
  cand,         \* generateLineups: value returned by the last buildLineupStrict call
  attempt,      \* buildLineupStrict: attempt counter
  best,         \* buildLineupStrict: best candidate so far (Null or Some(candidate))
  poolByPos,    \* buildLineupStrict: this attempt's ranked lists by position
  taken,        \* buildLineupStrict: ids already placed in this attempt
  teamCount,    \* buildLineupStrict: members per team in this attempt
  lineup,       \* buildLineupStrict: this attempt's lineup, in slot order
  used,         \* buildLineupStrict: salary used by this attempt
  slot,         \* buildLineupStrict: index of the slot being filled
  grown,        \* number of rejections that enlarged noise or temperature
  result,       \* the value handed back to the caller (Null until then)
  produced,     \* history: the candidates built by the successful attempts of
                \* the current buildLineupStrict call
  calls,        \* history: the finished calls, as records [req, result]
  PLAYERS,         \* the loaded pool: {id, pos, salary, sport}
  CURRENT_SPORT,
  LAST_SOURCE,     \* "null", "draftkings", "nflverse <season>" or "empty"
  LAST_REFRESH,    \* Null or the time of the last load
  DK_SALARIES_URL, \* "unread" until the process starts, then "" or a URL
  tasks,           \* the calls that wait for a fetch (each an await in progress)
  now,             \* Date.now(), in periods longer than REFRESH_MS
  last             \* the last call that ended: its reply or its settlement

vars == <<players, req, pc, noise, temperature, out, seen, cand, attempt, best,
          poolByPos, taken, teamCount, lineup, used, slot, grown, result,
          produced, calls, PLAYERS, CURRENT_SPORT, LAST_SOURCE, LAST_REFRESH,
          DK_SALARIES_URL, tasks, now, last>>

(***************************************************************************)
(* Bounds of the model.                                                    *)
(***************************************************************************)
\* Math.random() takes the values k / (2 * RandomHalfGrid), k in 0 .. 2*RandomHalfGrid - 1
RandomHalfGrid == 1
\* at most this many players of one attempt draw a noise other than the midpoint
MaxNoised == 1
\* sortByValue is applied to arrays of at most this many players
MaxSorted == 3
\* at most this many rejections with a non-zero noise or temperature are followed
MaxGrow == 1
\* count * triesPerLineup of a request is at most this
MaxWork == 2
\* at most this many calls wait for a fetch at once
MaxTasks == 2
\* the clock advances at most this many periods
MaxTime == 1

(***************************************************************************)
(* Generic helpers.                                                        *)
(***************************************************************************)
Null == <<>>
Some(x) == <<x>>

Max(a, b) == IF a >= b THEN a ELSE b
Min(a, b) == IF a <= b THEN a ELSE b
Abs(x) == IF x < 0 THEN -x ELSE x
Sign(x) == IF x > 0 THEN 1 ELSE IF x < 0 THEN -1 ELSE 0

RECURSIVE GCD(_, _)
GCD(a, b) == IF b = 0 THEN a ELSE GCD(b, a % b)

\* exact rationals with a positive denominator, kept in lowest terms
Rat(n, d) == LET g == GCD(Abs(n), d) IN [num |-> n \div g, den |-> d \div g]
Zero == Rat(0, 1)
RatMul(x, y) == Rat(x.num * y.num, x.den * y.den)
RatAdd(x, y) == Rat(x.num * y.den + y.num * x.den, x.den * y.den)
RatLess(x, y) == x.num * y.den < y.num * x.den

RECURSIVE SeqSum(_)
SeqSum(s) == IF s = <<>> THEN 0 ELSE Head(s) + SeqSum(Tail(s))

\* Array.prototype.find: Some(the first element of s whose index is in hits,
\* the indexes that pass the test) or Null
SelectFirst(s, hits) ==
  IF hits = {} THEN Null
  ELSE Some(s[CHOOSE i \in hits : \A j \in hits : i <= j])

SeqToSet(s) == {s[i] : i \in 1..Len(s)}
Slice(s, k) == SubSeq(s, 1, Min(k, Len(s)))

(***************************************************************************)
(* Utils (part_000, lines 30-40).                                          *)
(***************************************************************************)
\* fmt(x, 2): Number(x.toFixed(2)), on thousandths: the nearest multiple of
\* 10, a half rounded away from zero
fmt(x) == IF x >= 0 THEN ((x + 5) \div 10) * 10 ELSE -(((-x + 5) \div 10) * 10)

\* Array.prototype.sort without a comparator, on ids: the j-th id goes to the
\* place given by the number of ids before it in the order
SortIds(s) ==
  LET place(j) == Cardinality({k \in 1..Len(s) : s[k] < s[j] \/ (s[k] = s[j] /\ k <= j)})
  IN [i \in 1..Len(s) |-> s[CHOOSE j \in 1..Len(s) : place(j) = i]]

\* uniqKey: the ids of the lineup, sorted and joined (the ids of the model's
\* pools have the same number of digits, so string order is numeric order)
uniqKey(l) == SortIds([i \in 1..Len(l) |-> l[i].id])

\* symDiffSize(A, B) = |A| + |B| - 2 * #{p in B : p.id is an id of A}
symDiffSize(A, B) ==
  LET a == {A[i].id : i \in 1..Len(A)}
      overlap == Cardinality({i \in 1..Len(B) : B[i].id \in a})
  IN Len(A) + Len(B) - 2 * overlap

(***************************************************************************)
(* SPORT CONFIG (part_000, lines 43-78).                                   *)
(***************************************************************************)
ROSTERS ==
  [NFL |-> [cap |-> 50000,
            slots |-> << [name |-> "QB",   allow |-> <<"QB">>],
                         [name |-> "RB1",  allow |-> <<"RB">>],
                         [name |-> "RB2",  allow |-> <<"RB">>],
                         [name |-> "WR1",  allow |-> <<"WR">>],
                         [name |-> "WR2",  allow |-> <<"WR">>],
                         [name |-> "WR3",  allow |-> <<"WR">>],
                         [name |-> "TE",   allow |-> <<"TE">>],
                         [name |-> "FLEX", allow |-> <<"RB", "WR", "TE">>],
                         [name |-> "DST",  allow |-> <<"DST">>] >>,
            stack |-> Some([needQBStack |-> TRUE, minReceivers |-> 1, maxReceivers |-> 2]),
            avoidDstConflict |-> TRUE,
            defaultMaxPerTeam |-> 3],
   NBA |-> [cap |-> 50000,
            slots |-> << [name |-> "PG",   allow |-> <<"PG">>],
                         [name |-> "SG",   allow |-> <<"SG">>],
                         [name |-> "SF",   allow |-> <<"SF">>],
                         [name |-> "PF",   allow |-> <<"PF">>],
                         [name |-> "C",    allow |-> <<"C">>],
                         [name |-> "G",    allow |-> <<"PG", "SG">>],
                         [name |-> "F",    allow |-> <<"SF", "PF">>],
                         [name |-> "UTIL", allow |-> <<"PG", "SG", "SF", "PF", "C">>] >>,
            stack |-> Null,
            avoidDstConflict |-> FALSE,
            defaultMaxPerTeam |-> 3]]

\* the NFL template with its DST slot moved to the front of the slot sequence
\* (a template the program does not define; used only where a request asks
\* for it, to exercise canAdd's DST check in both directions)
DstFirst(cfg) ==
  [cfg EXCEPT !.slots = <<cfg.slots[Len(cfg.slots)]>> \o SubSeq(cfg.slots, 1, Len(cfg.slots) - 1)]

rosterCfg == IF req.dstFirst THEN DstFirst(ROSTERS[req.sport]) ELSE ROSTERS[req.sport]

(***************************************************************************)
(* Randomness.  rnd(a, b) = a + Math.random() * (b - a).                   *)
(***************************************************************************)
RandomDraws == 0 .. (2 * RandomHalfGrid - 1)
Mid == RandomHalfGrid

\* rnd(-x, x) for the draw k, x an exact rational in points: the result in
\* thousandths of a point, x * (k - Mid) / Mid rounded down
rnd(x, k) ==
  LET g == GCD(1000, x.den * RandomHalfGrid)
  IN ((1000 \div g) * x.num * (k - Mid)) \div ((x.den * RandomHalfGrid) \div g)

(***************************************************************************)
(* Optimizer core: sortByValue (part_000, lines 329-337).                  *)
(***************************************************************************)
\* the comparator without its second key: equal densities compare as 0
compareSignNoTie(a, b, t, ka, kb) ==
  LET ma == Max(1, a.salary)
      mb == Max(1, b.salary)
      X  == b.projAdj * ma - a.projAdj * mb
      Y  == t.num * (kb - ka) * ma * mb
      D  == t.den * RandomHalfGrid
      q  == (-Y) \div D
      exact == ((-Y) % D) = 0
  IN IF X > q THEN 1
     ELSE IF exact /\ X = q THEN 0
     ELSE -1

\* The sign of comparator(a, b) when the two jitter draws are ka and kb:
\*   va = a.projAdj / max(1, a.salary) + rnd(-t, t) / 1000, vb likewise,
\*   vb - va when they differ, else b.projAdj - a.projAdj.
\* (vb - va) * 1000 * ma * mb = X + t * (kb - ka) * ma * mb / Mid.
compareSign(a, b, t, ka, kb) ==
  LET ma == Max(1, a.salary)
      mb == Max(1, b.salary)
      X  == b.projAdj * ma - a.projAdj * mb
      Y  == t.num * (kb - ka) * ma * mb
      D  == t.den * RandomHalfGrid
      q  == (-Y) \div D
      exact == ((-Y) % D) = 0
  IN IF X > q THEN 1
     ELSE IF exact /\ X = q THEN Sign(b.projAdj - a.projAdj)
     ELSE -1

\* the comparator with a jitter drawn whatever the temperature is (of
\* amplitude 0.6 when temperature is 0)
CmpOutcomesJittered(a, b, t) ==
  LET u == IF t.num = 0 THEN Rat(3, 5) ELSE t
  IN {compareSign(a, b, u, ka, kb) : ka \in RandomDraws, kb \in RandomDraws}

\* the signs comparator(a, b) can return: one when temperature is 0 (no
\* jitter is drawn), one per pair of jitter draws otherwise
CmpOutcomes(a, b, t) ==
  IF t.num = 0 THEN {compareSign(a, b, t, Mid, Mid)}
  ELSE {compareSign(a, b, t, ka, kb) : ka \in RandomDraws, kb \in RandomDraws}

\* Array.prototype.sort on a short array is a binary insertion sort: the
\* element x ends up after a left neighbour l with comparator(x, l) >= 0 and
\* before a right neighbour r with comparator(x, r) < 0
InsertOutcomes(s, x, t) ==
  { SubSeq(s, 1, p) \o <<x>> \o SubSeq(s, p + 1, Len(s)) :
      p \in { i \in 0..Len(s) :
                /\ (i = 0 \/ CmpOutcomes(x, s[i], t) \cap {0, 1} # {})
                /\ (i = Len(s) \/ -1 \in CmpOutcomes(x, s[i + 1], t)) } }

RECURSIVE SortFirst(_, _, _)
\* the orders the insertion sort can give the first k elements of arr
SortFirst(arr, k, t) ==
  IF k = 0 THEN {<<>>}
  ELSE UNION { InsertOutcomes(s, arr[k], t) : s \in SortFirst(arr, k - 1, t) }

\* the orders [...arr].sort(comparator) can return: exactly one when
\* temperature is 0 (the stable sort by density, then by projAdj)
sortByValue(arr, t) == SortFirst(arr, Len(arr), t)

(***************************************************************************)
(* Optimizer core: buildLineupStrict (part_000, lines 339-428).            *)
(***************************************************************************)
\* const cap = salaryCap || rosterCfg.cap
cap == IF req.salaryCap # 0 THEN req.salaryCap ELSE rosterCfg.cap

RECURSIVE SubsetsUpTo(_, _)
\* the subsets of S of at most k elements
SubsetsUpTo(S, k) ==
  IF k = 0 THEN {{}}
  ELSE LET smaller == SubsetsUpTo(S, k - 1)
       IN smaller \cup {T \cup {x} : T \in smaller, x \in S}

\* the noise draws of one attempt: one Math.random() per player
NoiseDraws ==
  LET n == Len(players)
      off == RandomDraws \ {Mid}
  IN IF noise.num = 0 THEN {[i \in 1..n |-> Mid]}
     ELSE UNION { { [i \in 1..n |-> IF i \in S THEN f[i] ELSE Mid] : f \in [S -> off] } :
                    S \in SubsetsUpTo(1..n, MaxNoised) }

\* players.map(p => ({...p, projAdj: p.proj + (noise ? rnd(-noise, noise) : 0)}))
NoisedPool(draws) ==
  [i \in 1..Len(players) |->
     [id |-> players[i].id, team |-> players[i].team, pos |-> players[i].pos,
      proj |-> players[i].proj, salary |-> players[i].salary,
      projAdj |-> players[i].proj + (IF noise.num # 0 THEN rnd(noise, draws[i]) ELSE 0)]]

\* pool.reduce(...): the players of one position, in pool order
GroupByPos(pool, pos) == SelectSeq(pool, LAMBDA p : p.pos = pos)

RECURSIVE RankedByPos(_, _, _)
\* for (const pos in poolByPos) poolByPos[pos] = sortByValue(poolByPos[pos], temperature):
\* every map from the positions of the pool to one order sortByValue can return
RankedByPos(pool, poss, t) ==
  IF poss = {} THEN {<<>>}
  ELSE LET pos == CHOOSE x \in poss : TRUE
       IN { (pos :> ranked) @@ rest :
              ranked \in sortByValue(GroupByPos(pool, pos), t),
              rest \in RankedByPos(pool, poss \ {pos}, t) }

\* canAdd without the salary check of line 361
canAddNoCap(p, addingPos) ==
  /\ p.id \notin taken
  /\ LET cnt == (IF p.team \in DOMAIN teamCount THEN teamCount[p.team] ELSE 0) + 1
     IN ~(req.maxPerTeam # 0 /\ cnt > req.maxPerTeam)
  /\ IF rosterCfg.avoidDstConflict
     THEN IF addingPos = "DST"
          THEN ~(\E i \in 1..Len(lineup) : lineup[i].pos # "DST" /\ lineup[i].team = p.team)
          ELSE ~(\E i \in 1..Len(lineup) : lineup[i].pos = "DST" /\ lineup[i].team = p.team)
     ELSE TRUE

\* canAdd with the team count taken before the increment (an off-by-one)
canAddTeamOffByOne(p, addingPos) ==
  /\ p.id \notin taken
  /\ ~(used + p.salary > cap)
  /\ LET cnt == (IF p.team \in DOMAIN teamCount THEN teamCount[p.team] ELSE 0)
     IN ~(req.maxPerTeam # 0 /\ cnt > req.maxPerTeam)
  /\ IF rosterCfg.avoidDstConflict
     THEN IF addingPos = "DST"
          THEN ~(\E i \in 1..Len(lineup) : lineup[i].pos # "DST" /\ lineup[i].team = p.team)
          ELSE ~(\E i \in 1..Len(lineup) : lineup[i].pos = "DST" /\ lineup[i].team = p.team)
     ELSE TRUE

\* canAdd with the DST check applied only when a non-DST player is added
canAddDstOneWay(p, addingPos) ==
  /\ p.id \notin taken
  /\ ~(used + p.salary > cap)
  /\ LET cnt == (IF p.team \in DOMAIN teamCount THEN teamCount[p.team] ELSE 0) + 1
     IN ~(req.maxPerTeam # 0 /\ cnt > req.maxPerTeam)
  /\ IF rosterCfg.avoidDstConflict
     THEN IF addingPos = "DST"
          THEN TRUE
          ELSE ~(\E i \in 1..Len(lineup) : lineup[i].pos = "DST" /\ lineup[i].team = p.team)
     ELSE TRUE

\* canAdd with the salary check refusing a player that uses up the cap exactly
canAddCapStrict(p, addingPos) ==
  /\ p.id \notin taken
  /\ ~(used + p.salary >= cap)
  /\ LET cnt == (IF p.team \in DOMAIN teamCount THEN teamCount[p.team] ELSE 0) + 1
     IN ~(req.maxPerTeam # 0 /\ cnt > req.maxPerTeam)
  /\ IF rosterCfg.avoidDstConflict
     THEN IF addingPos = "DST"
          THEN ~(\E i \in 1..Len(lineup) : lineup[i].pos # "DST" /\ lineup[i].team = p.team)
          ELSE ~(\E i \in 1..Len(lineup) : lineup[i].pos = "DST" /\ lineup[i].team = p.team)
     ELSE TRUE

\* canAdd(p, addingPos) of lines 359-374
canAdd(p, addingPos) ==
  /\ p.id \notin taken
  /\ ~(used + p.salary > cap)
  /\ LET cnt == (IF p.team \in DOMAIN teamCount THEN teamCount[p.team] ELSE 0) + 1
     IN ~(req.maxPerTeam # 0 /\ cnt > req.maxPerTeam)
  /\ IF rosterCfg.avoidDstConflict
     THEN IF addingPos = "DST"
          THEN ~(\E i \in 1..Len(lineup) : lineup[i].pos # "DST" /\ lineup[i].team = p.team)
          ELSE ~(\E i \in 1..Len(lineup) : lineup[i].pos = "DST" /\ lineup[i].team = p.team)
     ELSE TRUE

RECURSIVE ConcatAnyPos(_, _)
\* the merged candidate list without the restriction to slot.allow: every
\* ranked list of the pool
ConcatAnyPos(allowed, byPos) ==
  IF DOMAIN byPos = {} THEN <<>>
  ELSE LET pos == CHOOSE x \in DOMAIN byPos : TRUE
       IN SelectSeq(byPos[pos], LAMBDA x : x.id \notin taken)
            \o ConcatAnyPos(allowed, [q \in DOMAIN byPos \ {pos} |-> byPos[q]])

RECURSIVE Concat(_, _)
\* the merged candidate list of a slot: for each allowed position, in the
\* order of slot.allow, the ranked players of that position not yet taken
Concat(allowed, byPos) ==
  IF allowed = <<>> THEN <<>>
  ELSE (IF Head(allowed) \in DOMAIN byPos
        THEN SelectSeq(byPos[Head(allowed)], LAMBDA x : x.id \notin taken)
        ELSE <<>>) \o Concat(Tail(allowed), byPos)

\* Math.ceil(n * 0.15) and Math.ceil(n * 0.25)
Ceil15(n) == (n * 15 + 99) \div 100
Ceil25(n) == (n * 25 + 99) \div 100

\* const K = Math.max(5, Math.ceil(cands.length * 0.15))
WindowK(n) == Max(5, Ceil15(n))
\* the second scan over the window of the first one
WideKSame(n) == WindowK(n)

\* Math.max(K, Math.ceil(more.length * 0.25))
WideK(n) == Max(WindowK(n), Ceil25(n))

\* the player the slot takes: pick from the top K, else alt from the widened
\* window, else Null (give up this attempt)
SlotPick(s) ==
  LET allowed == s.allow
      Test(p) == canAdd(p, IF Len(allowed) = 1 THEN allowed[1] ELSE p.pos)
      cands == Concat(allowed, poolByPos)
      top   == Slice(cands, WindowK(Len(cands)))
      more  == Slice(cands, WideK(Len(cands)))
      pick  == SelectFirst(top, {i \in 1..Len(top) : Test(top[i])})
      alt   == SelectFirst(more, {i \in 1..Len(more) : Test(more[i])})
  IN IF pick # Null THEN pick ELSE alt

\* the lineup handed over as it is, projAdj included
StripAdjKept(l) == l

\* lineup.map(({projAdj, ...rest}) => rest)
StripAdj(l) ==
  [i \in 1..Len(l) |-> [id |-> l[i].id, team |-> l[i].team, pos |-> l[i].pos,
                        proj |-> l[i].proj, salary |-> l[i].salary]]

\* p.projAdj || p.proj || 0
ProjOf(p) == IF p.projAdj # 0 THEN p.projAdj ELSE p.proj

\* fmt(lineup.reduce((s, p) => s + (p.projAdj || p.proj || 0), 0))
TotalProj(l) == fmt(SeqSum([i \in 1..Len(l) |-> ProjOf(l[i])]))

\* the stack requirement left unchecked
StackOkSkipped(l) == TRUE

\* the stack requirement of lines 414-419 holds of the filled lineup
StackOk(l) ==
  IF rosterCfg.stack # Null /\ rosterCfg.stack[1].needQBStack
  THEN LET qb == SelectFirst(l, {i \in 1..Len(l) : l[i].pos = "QB"})
       IN /\ qb # Null
          /\ LET recs == {i \in 1..Len(l) :
                            (l[i].pos = "WR" \/ l[i].pos = "TE") /\ l[i].team = qb[1].team}
                 minRec == IF rosterCfg.stack[1].minReceivers # 0
                           THEN rosterCfg.stack[1].minReceivers ELSE 1
             IN ~(Cardinality(recs) < minRec)
  ELSE TRUE

\* line 423 without its last disjunct: equal totals keep the earlier candidate
BetterNoTie(c, b) ==
  \/ b = Null
  \/ c.totalProj > b[1].totalProj

\* line 423: the candidate replaces best
Better(c, b) ==
  \/ b = Null
  \/ c.totalProj > b[1].totalProj
  \/ (c.totalProj = b[1].totalProj /\ c.usedSalary < b[1].usedSalary)

(***************************************************************************)
(* The requests of the model: pools and options.                           *)
(***************************************************************************)
P(id, pos, team, proj, salary) ==
  [id |-> id, team |-> team, pos |-> pos, proj |-> proj, salary |-> salary]

NFLPool ==
  << P(11, "QB",  "A", 20000, 8), P(12, "QB",  "B", 18000, 7),
     P(13, "RB",  "A", 15000, 7), P(14, "RB",  "B", 14000, 6),
     P(15, "RB",  "C",  9000, 4),
     P(16, "WR",  "A", 16000, 7), P(17, "WR",  "B", 13000, 6),
     P(18, "WR",  "C", 12000, 5), P(19, "WR",  "D",  8667, 4),
     P(20, "TE",  "C",  9000, 4), P(23, "TE",  "D",  7000, 4),
     P(21, "DST", "A",  7000, 3), P(22, "DST", "E",  6000, 3) >>

NBAPool ==
  << P(31, "PG", "A", 20000, 8), P(32, "PG", "B", 15000, 6),
     P(33, "SG", "A", 17000, 7), P(34, "SG", "C", 12500, 5),
     P(35, "SF", "B", 16000, 7), P(36, "SF", "C", 10000, 4),
     P(37, "PF", "A", 14000, 6), P(38, "PF", "D", 10001, 4),
     P(39, "C",  "B", 13000, 6), P(40, "C",  "D",  9000, 4) >>

PoolOf(sport) == IF sport = "NFL" THEN NFLPool ELSE NBAPool

Sports == {"NFL", "NBA"}
\* the handler's salaryCap (line 497): 0 is an override of 0, which line 346
\* treats as it treats a request without salaryCap (the template's cap); 20 is
\* a cap no lineup of either pool fits
SalaryCaps == {0, 20, 47}
MaxPerTeams == {2, 3}
MinDiffs == {0, 4}
Noises == {Zero, Rat(6, 5)}
Temperatures == {Zero, Rat(3, 5)}

\* the requests of the program: the template is ROSTERS[sport]; minDiff,
\* which a single-lineup request never reads, is fixed for count <= 1
Requests ==
  { r \in [sport : Sports, salaryCap : SalaryCaps, count : 1..MaxWork,
           triesPerLineup : 1..MaxWork, maxPerTeam : MaxPerTeams, minDiff : MinDiffs,
           dstFirst : {FALSE}] :
      /\ r.count * r.triesPerLineup <= MaxWork
      /\ (r.count <= 1 => r.minDiff = 4) }

\* the same requests, and the NFL ones also with the DST slot first
RequestsAnyOrder ==
  Requests \cup {[r EXCEPT !.dstFirst = TRUE] : r \in {q \in Requests : q.sport = "NFL"}}

NoRequest ==
  [sport |-> "NFL", salaryCap |-> 0, count |-> 0, triesPerLineup |-> 0,
   maxPerTeam |-> 0, minDiff |-> 0, dstFirst |-> FALSE]

(***************************************************************************)
(* State machine.                                                          *)
(***************************************************************************)
Init ==
  /\ players = <<>>
  /\ req = NoRequest
  /\ pc = "idle"
  /\ noise = Zero
  /\ temperature = Zero
  /\ out = <<>>
  /\ seen = {}
  /\ cand = Null
  /\ attempt = 0
  /\ best = Null
  /\ poolByPos = <<>>
  /\ taken = {}
  /\ teamCount = <<>>
  /\ lineup = <<>>
  /\ used = 0
  /\ slot = 0
  /\ grown = 0
  /\ result = Null
  /\ produced = {}
  /\ calls = <<>>
  /\ PLAYERS = <<>>
  /\ CURRENT_SPORT = "NFL"
  /\ LAST_SOURCE = "null"
  /\ LAST_REFRESH = Null
  /\ DK_SALARIES_URL = "unread"
  /\ tasks = {}
  /\ now = 0
  /\ last = [op |-> "", branch |-> "", token |-> "", status |-> "", load |-> ""]

buildVars == <<attempt, best, poolByPos, taken, teamCount, lineup, used, slot>>
genVars == <<out, seen, cand, grown>>
histVars == <<produced, calls>>
poolVars == <<PLAYERS, CURRENT_SPORT, LAST_SOURCE, LAST_REFRESH>>
loaderVars == <<poolVars, DK_SALARIES_URL, tasks, now, last>>
optimizerVars == <<players, req, pc, noise, temperature, buildVars, genVars, result, histVars>>

\* POST /api/lineups/optimize, lines 508-513: one lineup is built directly,
\* several by generateLineups
OptimizeOn(requests, pools) ==
  /\ pc = "idle"
  /\ \E r \in requests, ns \in Noises, t \in Temperatures :
       /\ req' = r
       /\ players' \in pools[r.sport]
       /\ noise' = ns
       /\ temperature' = t
       /\ pc' = IF r.count <= 1 THEN "attempt" ELSE "loop"
  /\ UNCHANGED <<buildVars, genVars, result, histVars>>
  /\ UNCHANGED loaderVars

\* the requests on the loaded pool of the sport
OptimizeWith(requests) == OptimizeOn(requests, [sport \in Sports |-> {PoolOf(sport)}])

Optimize == OptimizeWith(Requests)

\* the comparator of line 465: (b.totalProj - a.totalProj) || (a.usedSalary - b.usedSalary)
OutCompare(a, b) ==
  IF b.totalProj - a.totalProj # 0 THEN b.totalProj - a.totalProj
  ELSE a.usedSalary - b.usedSalary

\* the return of line 466 without the sort of line 465
SortOutSkipped(s) == s

\* out.sort(comparator), a stable sort: the j-th lineup goes to the place
\* given by the number of lineups the comparator puts before it
SortOut(s) ==
  LET place(j) == Cardinality({k \in 1..Len(s) :
                     \/ OutCompare(s[k], s[j]) < 0
                     \/ (OutCompare(s[k], s[j]) = 0 /\ k <= j)})
  IN [i \in 1..Len(s) |-> s[CHOOSE j \in 1..Len(s) : place(j) = i]]

\* generateLineups, line 442-443: the loop test, then either the call of
\* buildLineupStrict or the sort and the return of lines 465-466
GenLoop ==
  /\ pc = "loop"
  /\ grown <= MaxGrow
  /\ IF Len(out) < req.count
     THEN /\ pc' = "attempt"
          /\ attempt' = 0
          /\ best' = Null
          /\ produced' = {}
          /\ UNCHANGED result
     ELSE /\ pc' = "done"
          /\ result' = Some(SortOut(out))
          /\ UNCHANGED <<attempt, best, produced>>
  /\ UNCHANGED <<players, req, noise, temperature, genVars,
                 poolByPos, taken, teamCount, lineup, used, slot, calls>>
  /\ UNCHANGED loaderVars

\* buildLineupStrict, lines 349-357: the start of an attempt
BeginAttempt ==
  /\ pc = "attempt"
  /\ attempt < req.triesPerLineup
  /\ \E draws \in NoiseDraws :
       LET pool == NoisedPool(draws)
           poss == {pool[i].pos : i \in 1..Len(pool)}
       IN \E ranked \in RankedByPos(pool, poss, temperature) : poolByPos' = ranked
  /\ taken' = {}
  /\ teamCount' = <<>>
  /\ lineup' = <<>>
  /\ used' = 0
  /\ slot' = 1
  /\ pc' = "slot"
  /\ UNCHANGED <<players, req, noise, temperature, genVars, attempt, best, result,
                 histVars>>
  /\ UNCHANGED loaderVars

\* add(p) without taken.add(p.id)
addNoTaken(p) ==
  /\ taken' = taken
  /\ teamCount' = (p.team :> ((IF p.team \in DOMAIN teamCount
                               THEN teamCount[p.team] ELSE 0) + 1)) @@ teamCount
  /\ lineup' = Append(lineup, p)
  /\ used' = used + p.salary

\* add(p) of lines 375-380
add(p) ==
  /\ taken' = taken \cup {p.id}
  /\ teamCount' = (p.team :> ((IF p.team \in DOMAIN teamCount
                               THEN teamCount[p.team] ELSE 0) + 1)) @@ teamCount
  /\ lineup' = Append(lineup, p)
  /\ used' = used + p.salary

\* buildLineupStrict, lines 383-409: one iteration of the slot loop
FillSlot ==
  /\ pc = "slot"
  /\ LET got == SlotPick(rosterCfg.slots[slot])
     IN IF got = Null
        THEN \* lineup.length = 0; break
             /\ lineup' = <<>>
             /\ pc' = "end"
             /\ UNCHANGED <<taken, teamCount, used, slot>>
        ELSE /\ add(got[1])
             /\ slot' = slot + 1
             /\ pc' = IF slot = Len(rosterCfg.slots) THEN "end" ELSE "slot"
  /\ UNCHANGED <<players, req, noise, temperature, genVars, attempt, best, poolByPos,
                 result, histVars>>
  /\ UNCHANGED loaderVars

\* the checks after the slot loop without the length check of line 411
EndAttemptNoLength ==
  /\ pc = "end"
  /\ IF ~StackOk(lineup)
     THEN /\ best' = best
          /\ produced' = produced
     ELSE LET candidate == [usedSalary |-> used, totalProj |-> TotalProj(lineup),
                            lineup |-> StripAdj(lineup)]
          IN /\ best' = IF Better(candidate, best) THEN Some(candidate) ELSE best
             /\ produced' = produced \cup {candidate}
  /\ attempt' = attempt + 1
  /\ poolByPos' = <<>>
  /\ taken' = {}
  /\ teamCount' = <<>>
  /\ lineup' = <<>>
  /\ used' = 0
  /\ slot' = 0
  /\ pc' = "attempt"
  /\ UNCHANGED <<players, req, noise, temperature, genVars, result, calls>>
  /\ UNCHANGED loaderVars

\* buildLineupStrict, lines 411-426: the checks after the slot loop, the
\* candidate and the update of best; the attempt's locals go out of scope
EndAttempt ==
  /\ pc = "end"
  /\ IF Len(lineup) # Len(rosterCfg.slots) \/ ~StackOk(lineup)
     THEN /\ best' = best
          /\ produced' = produced
     ELSE LET candidate == [usedSalary |-> used, totalProj |-> TotalProj(lineup),
                            lineup |-> StripAdj(lineup)]
          IN /\ best' = IF Better(candidate, best) THEN Some(candidate) ELSE best
             /\ produced' = produced \cup {candidate}
  /\ attempt' = attempt + 1
  /\ poolByPos' = <<>>
  /\ taken' = {}
  /\ teamCount' = <<>>
  /\ lineup' = <<>>
  /\ used' = 0
  /\ slot' = 0
  /\ pc' = "attempt"
  /\ UNCHANGED <<players, req, noise, temperature, genVars, result, calls>>
  /\ UNCHANGED loaderVars

\* buildLineupStrict, line 427: return best, to the handler (line 510) or to
\* generateLineups (line 443)
ReturnBest ==
  /\ pc = "attempt"
  /\ ~(attempt < req.triesPerLineup)
  /\ IF req.count <= 1
     THEN /\ result' = best
          /\ pc' = "done"
          /\ UNCHANGED cand
     ELSE /\ cand' = best
          /\ pc' = "check"
          /\ UNCHANGED result
  /\ UNCHANGED <<players, req, noise, temperature, out, seen, grown, buildVars,
                 histVars>>
  /\ UNCHANGED loaderVars

\* a rejection that leaves noise and temperature as they are
GrowthNone == Rat(1, 1)

\* noise *= 1.02; temperature *= 1.02
Growth == Rat(102, 100)

\* the check without the symDiffSize loop
IsUniqueNoDiff(c) == uniqKey(c.lineup) \notin seen

\* the check without the seen-set
IsUniqueNoSeen(c) ==
  ~(\E i \in 1..Len(out) : symDiffSize(out[i].lineup, c.lineup) < req.minDiff)

\* lines 447-452: the diversity and duplicate check of a candidate
IsUnique(c) ==
  /\ ~(\E i \in 1..Len(out) : symDiffSize(out[i].lineup, c.lineup) < req.minDiff)
  /\ uniqKey(c.lineup) \notin seen

\* the loop body without the break of line 444
GenCheckNoBreak ==
  /\ pc = "check"
  /\ IF cand = Null
     THEN \* no break: the loop goes on
          /\ pc' = "loop"
          /\ UNCHANGED <<result, out, seen, noise, temperature, grown>>
     ELSE LET c == cand[1]
              unique == IsUnique(c)
              out1 == IF unique THEN Append(out, c) ELSE out
              noise1 == IF unique THEN noise ELSE RatMul(noise, Growth)
          IN /\ out' = out1
             /\ seen' = IF unique THEN seen \cup {uniqKey(c.lineup)} ELSE seen
             /\ temperature' = IF unique THEN temperature ELSE RatMul(temperature, Growth)
             /\ noise' = IF Len(out1) = 0 /\ RatLess(noise1, Rat(5, 2))
                         THEN RatAdd(noise1, Rat(5, 100)) ELSE noise1
             /\ grown' = IF unique \/ (noise.num = 0 /\ temperature.num = 0)
                         THEN grown ELSE grown + 1
             /\ pc' = "loop"
             /\ UNCHANGED result
  /\ cand' = Null
  /\ UNCHANGED <<players, req, buildVars, histVars>>
  /\ UNCHANGED loaderVars

\* generateLineups, lines 444-462: the rest of the loop body
GenCheck ==
  /\ pc = "check"
  /\ IF cand = Null
     THEN \* break, then the sort and the return of lines 465-466
          /\ pc' = "done"
          /\ result' = Some(SortOut(out))
          /\ UNCHANGED <<out, seen, noise, temperature, grown>>
     ELSE LET c == cand[1]
              unique == IsUnique(c)
              out1 == IF unique THEN Append(out, c) ELSE out
              noise1 == IF unique THEN noise ELSE RatMul(noise, Growth)
          IN /\ out' = out1
             /\ seen' = IF unique THEN seen \cup {uniqKey(c.lineup)} ELSE seen
             /\ temperature' = IF unique THEN temperature ELSE RatMul(temperature, Growth)
             /\ noise' = IF Len(out1) = 0 /\ RatLess(noise1, Rat(5, 2))
                         THEN RatAdd(noise1, Rat(5, 100)) ELSE noise1
             /\ grown' = IF unique \/ (noise.num = 0 /\ temperature.num = 0)
                         THEN grown ELSE grown + 1
             /\ pc' = "loop"
             /\ UNCHANGED result
  /\ cand' = Null
  /\ UNCHANGED <<players, req, buildVars, histVars>>
  /\ UNCHANGED loaderVars

\* the multi-lineup body with the requested count in place of many.length
ResponseEchoed ==
  IF req.count <= 1
  THEN IF result # Null THEN result[1]
       ELSE [error |-> "Could not build a lineup. Check pool/constraints."]
  ELSE [salaryCap |-> req.salaryCap, count |-> req.count, lineups |-> result[1],
        sport |-> req.sport]

\* POST /api/lineups/optimize, lines 510 and 514: the body handed to res.json
\* once the optimizer has returned (pc = "done")
Response ==
  IF req.count <= 1
  THEN IF result # Null THEN result[1]
       ELSE [error |-> "Could not build a lineup. Check pool/constraints."]
  ELSE [salaryCap |-> req.salaryCap, count |-> Len(result[1]), lineups |-> result[1],
        sport |-> req.sport]

\* the handler has answered and the next request arrives: the finished call
\* is recorded, and every call starts from fresh locals (lines 347, 439-440)
Again ==
  /\ pc = "done"
  /\ calls = <<>>
  /\ calls' = Append(calls, [req |-> req, players |-> players, result |-> result])
  /\ players' = <<>>
  /\ req' = NoRequest
  /\ pc' = "idle"
  /\ noise' = Zero
  /\ temperature' = Zero
  /\ out' = <<>>
  /\ seen' = {}
  /\ cand' = Null
  /\ attempt' = 0
  /\ best' = Null
  /\ grown' = 0
  /\ result' = Null
  /\ produced' = {}
  /\ UNCHANGED <<poolByPos, taken, teamCount, lineup, used, slot>>
  /\ UNCHANGED loaderVars

Next ==
  \/ Optimize
  \/ GenLoop
  \/ BeginAttempt
  \/ FillSlot
  \/ EndAttempt
  \/ ReturnBest
  \/ GenCheck

Spec == Init /\ [][Next]_vars

(***************************************************************************)
(* What the properties below speak about.                                  *)
(***************************************************************************)
Single == req.count <= 1
\* the lineups buildLineupStrict has returned that the state still holds
Built ==
  (IF cand # Null THEN {cand[1]} ELSE {})
  \cup (IF pc = "done" /\ Single /\ result # Null THEN {result[1]} ELSE {})
  \cup SeqToSet(out)
  \cup (IF pc = "done" /\ ~Single /\ result # Null THEN SeqToSet(result[1]) ELSE {})

AllowSet(i) == SeqToSet(rosterCfg.slots[i].allow)
Ids(l) == {l[i].id : i \in 1..Len(l)}
Salaries(l) == SeqSum([i \in 1..Len(l) |-> l[i].salary])
OnTeam(l, team) == {i \in 1..Len(l) : l[i].team = team}
Teams(l) == {l[i].team : i \in 1..Len(l)}
\* the accepted lineups of generateLineups: the list while it grows, and the
\* returned list
Accepted ==
  IF pc = "done" /\ ~Single /\ result # Null THEN result[1] ELSE out

(***************************************************************************)
(* Slot Filler: the invariants of a returned lineup.                       *)
(***************************************************************************)
\* C1: every lineup returned by buildLineupStrict, for the NFL and the NBA
\* template, has as many members as the template has slots, and its i-th
\* member's position is in the allow-list of the i-th slot.
C1_SlotOrder ==
  \A c \in Built :
    /\ Len(c.lineup) = Len(rosterCfg.slots)
    /\ \A i \in 1..Len(c.lineup) : c.lineup[i].pos \in AllowSet(i)

\* a returned NBA lineup whose F slot holds a PF, the second position of its
\* allow-list
C1_Witness ==
  /\ pc = "done" /\ Single /\ result # Null
  /\ req.sport = "NBA"
  /\ result[1].lineup[7].pos = "PF"

\* C2: the pool's ids being pairwise distinct, no returned lineup holds the
\* same id twice.
C2_DistinctIds ==
  (Cardinality(Ids(players)) = Len(players)) =>
     \A c \in Built : Cardinality(Ids(c.lineup)) = Len(c.lineup)

\* a returned lineup whose flexible last slot (UTIL) was filled from
\* positions whose best players were already placed
C2_Witness ==
  /\ pc = "done" /\ Single /\ result # Null
  /\ req.sport = "NBA"
  /\ Cardinality(Ids(players)) = Len(players)
  /\ Cardinality({i \in 1..8 : result[1].lineup[i].pos = result[1].lineup[8].pos}) >= 2

\* C3: with a positive cap in effect, a returned lineup's usedSalary is the
\* sum of its members' salaries and is at most the cap, and the salary used
\* by an attempt is at most the cap after every add.
C3_SalaryCap ==
  (cap > 0) =>
     /\ \A c \in Built : c.usedSalary = Salaries(c.lineup) /\ c.usedSalary <= cap
     /\ used <= cap
     /\ (pc = "slot" => used = Salaries(lineup))

\* a lineup returned under the override 47 that the greedy choice (49) exceeds
C3_Witness ==
  /\ pc = "done" /\ Single /\ result # Null
  /\ req.sport = "NFL" /\ req.salaryCap = 47
  /\ result[1].usedSalary >= 46

\* C4: with maxPerTeam >= 1, no team has more than maxPerTeam members in a
\* returned lineup.
C4_TeamCap ==
  (req.maxPerTeam >= 1) =>
     \A c \in Built : \A t \in Teams(c.lineup) :
        Cardinality(OnTeam(c.lineup, t)) <= req.maxPerTeam

\* a lineup returned under maxPerTeam = 2 in which some team has 2 members
C4_Witness ==
  /\ pc = "done" /\ Single /\ result # Null
  /\ req.maxPerTeam = 2
  /\ \E t \in Teams(result[1].lineup) : Cardinality(OnTeam(result[1].lineup, t)) = 2

Receivers(l) ==
  {i \in 1..Len(l) : /\ l[i].pos \in {"WR", "TE"}
                     /\ \E q \in 1..Len(l) : l[q].pos = "QB" /\ l[q].team = l[i].team}
HasStackRule == rosterCfg.stack # Null /\ rosterCfg.stack[1].needQBStack

\* C5: under a template with a stack rule, every returned lineup has at least
\* minReceivers WR or TE members on the team of its QB, and an attempt whose
\* filled lineup has fewer leaves best as it was.
C5_Stack ==
  /\ [](HasStackRule =>
          \A c \in Built : Cardinality(Receivers(c.lineup)) >= rosterCfg.stack[1].minReceivers)
  /\ [][(/\ HasStackRule
         /\ pc = "end"
         /\ Len(lineup) = Len(rosterCfg.slots)
         /\ Cardinality(Receivers(lineup)) < rosterCfg.stack[1].minReceivers)
        => best' = best]_vars

\* a filled NFL lineup without a receiver of its QB's team, about to be
\* discarded, while an earlier attempt's lineup is kept as best
C5_Witness ==
  /\ HasStackRule
  /\ pc = "end"
  /\ Len(lineup) = Len(rosterCfg.slots)
  /\ Cardinality(Receivers(lineup)) = 0
  /\ best # Null

DstClash(l) ==
  \E i, j \in 1..Len(l) : l[i].pos = "DST" /\ l[j].pos # "DST" /\ l[i].team = l[j].team

\* the handler with the slot sequence of the NFL template in either order
OptimizeAnyOrder == OptimizeWith(RequestsAnyOrder)

NextAnyOrder ==
  \/ OptimizeAnyOrder
  \/ GenLoop
  \/ BeginAttempt
  \/ FillSlot
  \/ EndAttempt
  \/ ReturnBest
  \/ GenCheck

AnyOrderSpec == Init /\ [][NextAnyOrder]_vars

\* C6: under a template with avoidDstConflict, no returned lineup has a DST
\* member and a non-DST member of the same team, wherever the DST slot is in
\* the slot sequence.
C6_DstConflict ==
  rosterCfg.avoidDstConflict => \A c \in Built : ~DstClash(c.lineup)

\* a lineup returned under the template with the DST slot first, whose DST is
\* the one of team A: every later slot passed over the players of team A
C6_Witness ==
  /\ pc = "done" /\ Single /\ result # Null
  /\ req.dstFirst
  /\ result[1].lineup[1].id = 21

(***************************************************************************)
(* Diversity Generator.                                                    *)
(***************************************************************************)
\* C7: any two distinct lineups of the accepted list of one generateLineups
\* call, in every intermediate state and at return, differ by at least
\* minDiff: |A| + |B| - 2 * |A \cap B| >= minDiff on candidate ids.
C7_Diversity ==
  \A i, j \in 1..Len(Accepted) :
     i # j =>
       Len(Accepted[i].lineup) + Len(Accepted[j].lineup)
         - 2 * Cardinality(Ids(Accepted[i].lineup) \cap Ids(Accepted[j].lineup)) >= req.minDiff

\* two lineups returned together under minDiff = 4, after a rejection
C7_Witness ==
  /\ pc = "done" /\ ~Single /\ result # Null
  /\ req.minDiff = 4
  /\ Len(result[1]) = 2
  /\ grown >= 1

\* C8: no two lineups of the accepted list have the same set of member ids,
\* whatever minDiff is, minDiff <= 0 included.
C8_NoDuplicates ==
  \A i, j \in 1..Len(Accepted) :
     i # j => Ids(Accepted[i].lineup) # Ids(Accepted[j].lineup)

\* two lineups returned together under minDiff = 0, after a rejection (which
\* only the seen-set can have caused)
C8_Witness ==
  /\ pc = "done" /\ ~Single /\ result # Null
  /\ req.minDiff <= 0
  /\ Len(result[1]) = 2
  /\ grown >= 1

\* the requests without randomness: noise = 0 and temperature = 0
OptimizeZero == Optimize /\ noise' = Zero /\ temperature' = Zero

NextZero ==
  \/ OptimizeZero
  \/ GenLoop
  \/ BeginAttempt
  \/ FillSlot
  \/ EndAttempt
  \/ ReturnBest
  \/ GenCheck

\* the handler and the functions it calls are synchronous code: a step that
\* can be taken is taken
ZeroSpec == Init /\ [][NextZero]_vars /\ WF_vars(NextZero)

\* C9: every call of generateLineups terminates (K lineups accepted or a
\* ceiling on the invocations of buildLineupStrict reached), noise = 0 and
\* temperature = 0 included.
C9_Terminates == <>(pc = "done")

(***************************************************************************)
(* Reported totals.                                                        *)
(***************************************************************************)
OriginalProj(l) == SeqSum([i \in 1..Len(l) |-> l[i].proj])

\* C10: the totalProj of a returned lineup is the sum of its members'
\* original (non-noised) proj values (as fmt reports it, to two decimals).
C10_OriginalTotal ==
  \A c \in Built : c.totalProj = fmt(OriginalProj(c.lineup))

(***************************************************************************)
(* Output of generateLineups and of the handler.                           *)
(***************************************************************************)
Count(s, x) == Cardinality({i \in 1..Len(s) : s[i] = x})
IsPermutation(s, t) ==
  /\ Len(s) = Len(t)
  /\ \A x \in SeqToSet(s) \cup SeqToSet(t) : Count(s, x) = Count(t, x)

\* descending totalProj, and ascending usedSalary where totalProj is equal
Ordered(r) ==
  \A i \in 1..(Len(r) - 1) :
     /\ r[i].totalProj >= r[i + 1].totalProj
     /\ (r[i].totalProj = r[i + 1].totalProj => r[i].usedSalary <= r[i + 1].usedSalary)

\* C11: the list generateLineups returns is in descending order of totalProj,
\* adjacent lineups of equal totalProj are in ascending order of usedSalary,
\* and the list is a permutation of the accepted list (out, which the model
\* keeps in the order of acceptance).
C11_OutputOrder ==
  (pc = "done" /\ ~Single /\ result # Null) =>
     Ordered(result[1]) /\ IsPermutation(result[1], out)

\* two lineups returned in the reverse of the order of their acceptance
C11_Witness ==
  /\ pc = "done" /\ ~Single /\ result # Null
  /\ Len(result[1]) = 2
  /\ result[1][1] = out[2]
  /\ result[1][1].totalProj > result[1][2].totalProj

\* the optimizer has returned without a lineup
NoLineup == pc = "done" /\ (IF Single THEN result = Null ELSE result[1] = <<>>)

\* C12: a request that yields no feasible lineup is answered, in single mode
\* and in multi mode alike, by a body that carries a reason string (an error
\* field).
C12_EmptyHasReason ==
  NoLineup => "error" \in DOMAIN Response

\* C13: when buildLineupStrict returns no lineup to generateLineups, the next
\* step is the return of the lineups accepted so far, sorted (possibly the
\* empty list), and nothing is invoked after the return.
C13_StopOnNull ==
  /\ [][(pc = "check" /\ cand = Null)
          => /\ pc' = "done"
             /\ result' # Null
             /\ Ordered(result'[1])
             /\ IsPermutation(result'[1], out)]_vars
  /\ [][pc = "done" => pc' = "done"]_vars

\* one lineup returned to a request for two: the second invocation returned
\* no lineup
C13_Witness ==
  /\ pc = "done" /\ ~Single /\ result # Null
  /\ req.count = 2
  /\ Len(result[1]) = 1

\* C14: for a request of K >= 2 lineups the accepted list never has more than
\* K lineups, and the count field of the response is the length of its
\* lineups field, between 0 and K.
C14_CountReported ==
  /\ (pc # "idle" /\ ~Single) => Len(out) <= req.count
  /\ (pc = "done" /\ ~Single) =>
        /\ Response.count = Len(Response.lineups)
        /\ 0 <= Response.count
        /\ Response.count <= req.count

\* a response that carries as many lineups as were requested
C14_Witness ==
  /\ pc = "done" /\ ~Single
  /\ req.count = 2
  /\ Response.count = 2
  /\ Len(Response.lineups) = 2

(***************************************************************************)
(* buildLineupStrict without randomness, called twice.                     *)
(***************************************************************************)
\* the NFL pool with a QB 12 of lower value: ranked by value density, the
\* first QB then has a receiver of its team among the first WRs
NFLPool2 ==
  [i \in 1..Len(NFLPool) |->
     IF NFLPool[i].id = 12 THEN P(12, "QB", "B", 17000, 7) ELSE NFLPool[i]]

\* the NBA pool with a cheaper SG 33 and PF 38
NBAPool2 ==
  [i \in 1..Len(NBAPool) |->
     IF NBAPool[i].id = 33 THEN P(33, "SG", "A", 7000, 3)
     ELSE IF NBAPool[i].id = 38 THEN P(38, "PF", "D", 6000, 3)
     ELSE NBAPool[i]]

RepeatPools == [NFL |-> {NFLPool, NFLPool2}, NBA |-> {NBAPool, NBAPool2}]
RepeatCaps == {0, 39, 40, 43, 47, 48}
Tries == {1, 2}

\* single-lineup requests: the handler calls buildLineupStrict directly
RepeatRequests ==
  [sport : Sports, salaryCap : RepeatCaps, count : {1}, triesPerLineup : Tries,
   maxPerTeam : MaxPerTeams, minDiff : {4}, dstFirst : {FALSE}]

OptimizeRepeat ==
  OptimizeOn(RepeatRequests, RepeatPools) /\ noise' = Zero /\ temperature' = Zero

NextRepeat ==
  \/ OptimizeRepeat
  \/ BeginAttempt
  \/ FillSlot
  \/ EndAttempt
  \/ ReturnBest
  \/ Again

RepeatSpec == Init /\ [][NextRepeat]_vars

\* the earlier calls on the pool, template and maxPerTeam of the current one
SamePool == {i \in 1..Len(calls) : /\ calls[i].players = players
                                    /\ calls[i].req.sport = req.sport
                                    /\ calls[i].req.maxPerTeam = req.maxPerTeam}

\* the earlier calls with the arguments of the current one, the number of
\* tries left aside
SameCall == {i \in SamePool : calls[i].req.salaryCap = req.salaryCap}

\* C15: with noise = 0 and temperature = 0, two calls of buildLineupStrict on
\* the same pool, template, cap and maxPerTeam return the same value, null or
\* a lineup with the same members in the same slots, the same usedSalary and
\* the same totalProj, whatever their numbers of tries.
C15_Deterministic ==
  (pc = "done" /\ noise = Zero /\ temperature = Zero) =>
     \A i \in SameCall : result = calls[i].result

\* a second call, of two tries, that returned the lineup of a first call of
\* one try
C15_Witness ==
  /\ pc = "done" /\ noise = Zero /\ temperature = Zero
  /\ result # Null
  /\ \E i \in SameCall : calls[i].req.triesPerLineup = 1 /\ req.triesPerLineup = 2

\* C16: with noise = 0 and temperature = 0, when buildLineupStrict returned a
\* lineup of total value v under a cap C > 0, it returns under every cap
\* C' >= C, on the same pool and template, a lineup of total value >= v.
C16_BudgetMonotone ==
  (pc = "done") =>
     \A i \in SamePool :
        (/\ calls[i].req.salaryCap > 0
         /\ calls[i].req.salaryCap <= req.salaryCap
         /\ calls[i].result # Null)
        => /\ result # Null
           /\ result[1].totalProj >= calls[i].result[1].totalProj

(***************************************************************************)
(* Frame conditions.                                                       *)
(***************************************************************************)
\* C17: while a request is handled the players array and the fields of its
\* elements stay what they were, and every member of a returned lineup is a
\* player of the pool field for field, without a projAdj field.
C17_PoolUntouched ==
  /\ [][pc \notin {"idle", "done"} => players' = players]_vars
  /\ [](\A c \in Built : \A i \in 1..Len(c.lineup) :
           /\ "projAdj" \notin DOMAIN c.lineup[i]
           /\ \E j \in 1..Len(players) : players[j] = c.lineup[i])

\* a lineup returned from an attempt whose noise changed the value of a
\* member: the reported total is not the sum of the members' proj
C17_Witness ==
  /\ pc = "done" /\ Single /\ result # Null
  /\ noise # Zero
  /\ result[1].totalProj # fmt(OriginalProj(result[1].lineup))

\* the candidate's signature is in the seen-set, or its difference to an
\* accepted lineup is below minDiff
Rejected(c) ==
  \/ uniqKey(c.lineup) \in seen
  \/ \E i \in 1..Len(out) :
        Len(out[i].lineup) + Len(c.lineup)
          - 2 * Cardinality(Ids(out[i].lineup) \cap Ids(c.lineup)) < req.minDiff

\* factors greater than 1: 1.01 to 1.10
Factors == {Rat(k, 100) : k \in 101..110}

\* C18: in generateLineups a rejected candidate leaves the accepted list and
\* the seen-set unchanged and multiplies noise and temperature by one factor
\* greater than 1; an accepted candidate adds one lineup and one signature
\* and leaves noise and temperature unchanged; no other step of the call
\* changes noise, temperature, the accepted list or the seen-set.
C18_RejectAccept ==
  [][IF pc = "check" /\ cand # Null
     THEN IF Rejected(cand[1])
          THEN /\ out' = out
               /\ seen' = seen
               /\ \E f \in Factors : /\ noise' = RatMul(noise, f)
                                      /\ temperature' = RatMul(temperature, f)
          ELSE /\ out' = Append(out, cand[1])
               /\ seen' = seen \cup {uniqKey(cand[1].lineup)}
               /\ Cardinality(seen') = Cardinality(seen) + 1
               /\ noise' = noise
               /\ temperature' = temperature
     ELSE pc # "idle" =>
            /\ noise' = noise
            /\ temperature' = temperature
            /\ out' = out
            /\ seen' = seen]_vars

\* after one rejection: one lineup accepted, noise 1.2 grown to 1.224 and
\* temperature 0.6 to 0.612
C18_Witness ==
  /\ pc = "loop"
  /\ Len(out) = 1 /\ Cardinality(seen) = 1
  /\ noise = Rat(1224, 1000)
  /\ temperature = Rat(612, 1000)

(***************************************************************************)
(* The value buildLineupStrict returns.                                    *)
(***************************************************************************)
\* r, Null or Some(candidate), is the best of the candidates the successful
\* attempts of the call have built: Null iff there is none, else one of
\* maximum totalProj and, among those, of minimum usedSalary
IsBestOf(r, made) ==
  /\ (r = Null) <=> (made = {})
  /\ r # Null =>
       /\ r[1] \in made
       /\ \A c \in made :
            /\ c.totalProj <= r[1].totalProj
            /\ (c.totalProj = r[1].totalProj => r[1].usedSalary <= c.usedSalary)

\* the NBA pool with two centers of equal value and different salary, close in
\* value density
NBAPool3 ==
  [i \in 1..Len(NBAPool) |->
     IF NBAPool[i].id = 39 THEN P(39, "C", "B", 10000, 9)
     ELSE IF NBAPool[i].id = 40 THEN P(40, "C", "D", 10000, 8)
     ELSE NBAPool[i]]

BestPools == [NFL |-> {NFLPool}, NBA |-> {NBAPool, NBAPool3}]

OptimizeBest == OptimizeOn(Requests, BestPools)

NextBest ==
  \/ OptimizeBest
  \/ GenLoop
  \/ BeginAttempt
  \/ FillSlot
  \/ EndAttempt
  \/ ReturnBest
  \/ GenCheck

BestSpec == Init /\ [][NextBest]_vars

\* C19: the value buildLineupStrict returns, to the handler or to
\* generateLineups, is the best of the lineups its successful attempts
\* built: maximum totalProj, then minimum usedSalary; it is null iff no
\* attempt succeeded.
C19_BestReturned ==
  /\ (pc = "done" /\ Single) => IsBestOf(result, produced)
  /\ (pc = "check") => IsBestOf(cand, produced)

\* a call of two tries whose two attempts built lineups of equal totalProj
\* and different usedSalary, the cheaper one returned
C19_Witness ==
  /\ pc = "done" /\ Single /\ result # Null
  /\ req.triesPerLineup = 2
  /\ \E c \in produced : /\ c.totalProj = result[1].totalProj
                          /\ c.usedSalary > result[1].usedSalary

(***************************************************************************)
(* Pools of exactly as many candidates as the template has slots.          *)
(***************************************************************************)
\* the players of pool at the indexes of S, in pool order
SubPool(pool, S) ==
  [k \in 1..Cardinality(S) |->
     pool[CHOOSE i \in S : Cardinality({j \in S : j <= i}) = k]]

\* every pool of as many players of the sport's pool as its template has slots
ExactPools ==
  [sport \in Sports |->
     {SubPool(PoolOf(sport), S) :
        S \in {T \in SUBSET (1..Len(PoolOf(sport))) :
                 Cardinality(T) = Len(ROSTERS[sport].slots)}}]

RECURSIVE Assignable(_, _, _)
\* the players of pool at the indexes of S can be put one per slot, each at a
\* slot that allows its position
Assignable(slots, pool, S) ==
  IF slots = <<>> THEN S = {}
  ELSE \E i \in S : /\ pool[i].pos \in SeqToSet(Head(slots).allow)
                     /\ Assignable(Tail(slots), pool, S \ {i})

\* the pool is, as a whole, a feasible lineup of the request r: assignable to
\* the slots, within the cap and the team cap, with the stack and without a
\* DST conflict where the template asks for them
FeasiblePool(pool, r) ==
  LET cfg == ROSTERS[r.sport]
      capOf == IF r.salaryCap # 0 THEN r.salaryCap ELSE cfg.cap
  IN /\ Len(pool) = Len(cfg.slots)
     /\ Assignable(cfg.slots, pool, 1..Len(pool))
     /\ Salaries(pool) <= capOf
     /\ (r.maxPerTeam >= 1 =>
           \A t \in Teams(pool) : Cardinality(OnTeam(pool, t)) <= r.maxPerTeam)
     /\ (cfg.stack # Null /\ cfg.stack[1].needQBStack =>
           Cardinality(Receivers(pool)) >= cfg.stack[1].minReceivers)
     /\ (cfg.avoidDstConflict => ~DstClash(pool))

ExactRequests ==
  [sport : Sports, salaryCap : {0, 47}, count : {1}, triesPerLineup : Tries,
   maxPerTeam : MaxPerTeams, minDiff : {4}, dstFirst : {FALSE}]

\* single-lineup requests on a pool that is one feasible lineup
OptimizeExact ==
  /\ OptimizeOn(ExactRequests, ExactPools)
  /\ FeasiblePool(players', req')

NextExact ==
  \/ OptimizeExact
  \/ BeginAttempt
  \/ FillSlot
  \/ EndAttempt
  \/ ReturnBest

ExactSpec == Init /\ [][NextExact]_vars

\* C20: for the NFL and the NBA template, on a pool of exactly as many
\* candidates as the template has slots that form a feasible lineup,
\* buildLineupStrict returns, for tries >= 1 and any noise and temperature, a
\* lineup whose members are the whole pool.
C20_WholePool ==
  (pc = "done" /\ Single /\ FeasiblePool(players, req)) =>
     /\ result # Null
     /\ Ids(result[1].lineup) = Ids(players)

\* the whole pool returned from attempts with noise and jitter, for the NFL
\* template, the cap used up exactly
C20_Witness ==
  /\ pc = "done" /\ Single /\ FeasiblePool(players, req)
  /\ req.sport = "NFL" /\ noise # Zero /\ temperature # Zero
  /\ result # Null
  /\ Ids(result[1].lineup) = Ids(players)
  /\ result[1].usedSalary = cap

(***************************************************************************)
(* Pools without any player of one position.                               *)
(***************************************************************************)
Without(pool, pos) == SelectSeq(pool, LAMBDA p : p.pos # pos)

\* the sport's pool with the players of one of its positions left out
StarvedPools ==
  [sport \in Sports |->
     {Without(PoolOf(sport), pos) :
        pos \in {PoolOf(sport)[i].pos : i \in 1..Len(PoolOf(sport))}}]

\* single-lineup requests on a pool that lacks a position
OptimizeStarved == OptimizeOn({r \in Requests : r.count <= 1}, StarvedPools)

NextStarved ==
  \/ OptimizeStarved
  \/ BeginAttempt
  \/ FillSlot
  \/ EndAttempt
  \/ ReturnBest

StarvedSpec == Init /\ [][NextStarved]_vars

\* some slot of the template has no player of the pool in any of its allowed
\* positions
Starved ==
  \E i \in 1..Len(rosterCfg.slots) :
     \A k \in 1..Len(players) : players[k].pos \notin AllowSet(i)

\* C21: when some slot of the template has no pool candidate in any of its
\* allowed positions, no attempt of buildLineupStrict builds a candidate, the
\* call returns null and the single-lineup response is the failure object;
\* no lineup with fewer members than slots is ever returned.
C21_Starvation ==
  /\ \A c \in Built \cup produced : Len(c.lineup) = Len(rosterCfg.slots)
  /\ (pc \notin {"idle"} /\ Single /\ Starved) =>
        /\ produced = {}
        /\ best = Null
        /\ (pc = "done" => result = Null /\ DOMAIN Response = {"error"})

\* the failure object answered on an NBA pool without a C after two attempts
\* with noise, each of which filled the four slots before the C slot
C21_Witness ==
  /\ pc = "done" /\ Single /\ Starved
  /\ req.sport = "NBA" /\ noise # Zero
  /\ req.triesPerLineup = 2 /\ attempt = 2
  /\ \A k \in 1..Len(players) : players[k].pos # "C"
  /\ result = Null
  /\ DOMAIN Response = {"error"}

(***************************************************************************)
(* Slots with long candidate lists.                                        *)
(***************************************************************************)
\* f shooting guards of high value density and a salary of 45, which no cap
\* of the requests below affords
Fillers(f) == [k \in 1..f |-> P(40 + k, "SG", "Z", 200000 + 1000 * (f - k), 45)]
\* t shooting guards of low value density and a salary of 1
Cheap(t) == [k \in 1..t |-> P(49 + k, "SG", "T", 100 * (t - k + 1), 1)]

\* the NBA pool with f such shooting guards ranked before its own two and t
\* ranked after them
WidePool(f, t) == NBAPool \o Fillers(f) \o Cheap(t)

\* SG lists of 22 players (windows of 5 and 6) and of 34 (windows of 6 and 9)
WidePools ==
  [sport \in Sports |->
     {WidePool(4, 16), WidePool(5, 15), WidePool(6, 14),
      WidePool(5, 27), WidePool(8, 24), WidePool(9, 23)}]

WideRequests ==
  [sport : {"NBA"}, salaryCap : {47}, count : {1}, triesPerLineup : {1},
   maxPerTeam : {3}, minDiff : {4}, dstFirst : {FALSE}]

OptimizeWide == OptimizeOn(WideRequests, WidePools)

NextWide ==
  \/ OptimizeWide
  \/ BeginAttempt
  \/ FillSlot
  \/ EndAttempt
  \/ ReturnBest

WideSpec == Init /\ [][NextWide]_vars

\* the eligible list of the slot being filled: the ranked players of its
\* allowed positions that are not in the lineup yet
Eligible == Concat(rosterCfg.slots[slot].allow, poolByPos)
\* the first max(5, ceil(0.25 * n)) entries of it
Prefix == Slice(Eligible, Max(5, (Len(Eligible) + 3) \div 4))
\* the entries of a list that pass the feasibility checks at this slot
Passing(l) ==
  {i \in 1..Len(l) :
     canAdd(l[i], IF Len(rosterCfg.slots[slot].allow) = 1
                  THEN rosterCfg.slots[slot].allow[1] ELSE l[i].pos)}

\* C22: for each slot, the two-stage scan takes the highest-ranked entry of
\* the first max(5, ceil(0.25 * n)) entries of the eligible list (n its
\* length) that passes the feasibility checks, and the attempt fails iff no
\* entry of that prefix passes, even when a later entry would pass.
C22_WindowScan ==
  [][pc = "slot" =>
       IF Passing(Prefix) = {}
       THEN pc' = "end" /\ lineup' = <<>>
       ELSE /\ lineup' = Append(lineup,
                            Prefix[CHOOSE i \in Passing(Prefix) :
                                     \A j \in Passing(Prefix) : i <= j])
            /\ pc' \in {"slot", "end"}
            /\ slot' = slot + 1]_vars

\* the SG slot about to fail on a list of 22 whose first 6 entries do not
\* fit the cap while later ones do
C22_Witness ==
  /\ pc = "slot" /\ slot = 2
  /\ Len(Eligible) = 22
  /\ Passing(Prefix) = {}
  /\ Passing(Eligible) # {}

\* the SG slot about to take the 9th entry of a list of 34: beyond the first
\* window of 6, within the widened one of 9
WidenedPick ==
  /\ pc = "slot" /\ slot = 2
  /\ Len(Eligible) = 34
  /\ Passing(Prefix) # {}
  /\ \A i \in Passing(Prefix) : i >= 9

(***************************************************************************)
(* sortByValue on its own.                                                 *)
(***************************************************************************)
\* arrays of players of one position; the id of a player is its index in the
\* array, projAdj may be negative or 0 and salary may be 0
SortInputs ==
  UNION { { [i \in 1..n |-> [id |-> i, team |-> "A", pos |-> "RB", proj |-> f[i][1],
                             salary |-> f[i][2], projAdj |-> f[i][1]]] :
              f \in [1..n -> {-1000, 0, 1000, 2000} \X {0, 1, 2}] } :
          n \in 1..MaxSorted }

\* a call sortByValue(arr, temperature): players holds arr and result the
\* array returned
SortCall ==
  /\ pc = "idle"
  /\ \E arr \in SortInputs, t \in Temperatures :
       /\ players' = arr
       /\ temperature' = t
       /\ \E sorted \in sortByValue(arr, t) : result' = Some(sorted)
  /\ pc' = "sorted"
  /\ UNCHANGED <<req, noise, buildVars, genVars, histVars>>
  /\ UNCHANGED loaderVars

SortSpec == Init /\ [][SortCall]_vars

\* a is ranked before b: greater value / max(1, cost), or equal ones and a
\* greater value, or both equal and a earlier in the input (a smaller id)
RankedBefore(a, b) ==
  LET da == a.projAdj * Max(1, b.salary)
      db == b.projAdj * Max(1, a.salary)
  IN \/ da > db
     \/ da = db /\ a.projAdj > b.projAdj
     \/ da = db /\ a.projAdj = b.projAdj /\ a.id < b.id

\* C23: with temperature = 0 sortByValue returns a permutation of its input
\* in descending order of value / max(1, cost), equal densities in
\* descending order of value and remaining ties in input order; the input
\* keeps its order and a second call returns the same order.
C23_SortOrder ==
  (pc = "sorted" /\ temperature = Zero) =>
     LET r == result[1]
     IN /\ IsPermutation(r, players)
        /\ \A i, j \in 1..Len(r) : i < j => RankedBefore(r[i], r[j])
        /\ \A i \in 1..Len(players) : players[i].id = i
        /\ sortByValue(players, Zero) = {r}

\* three players of one density returned as <<3, 1, 2>>: the one of greater
\* value first, the two of equal value in input order
C23_Witness ==
  /\ pc = "sorted" /\ temperature = Zero
  /\ Len(players) = 3
  /\ result[1][1].id = 3 /\ result[1][2].id = 1 /\ result[1][3].id = 2
  /\ players[1].projAdj = 1000 /\ players[1].salary = 1
  /\ players[2].projAdj = 1000 /\ players[2].salary = 0
  /\ players[3].projAdj = 2000 /\ players[3].salary = 2

(***************************************************************************)
(* Cap overrides below every lineup's cost.                                *)
(***************************************************************************)
RECURSIVE CheapestSum(_, _)
\* the sum of the k smallest salaries among the players at the indices S
CheapestSum(S, k) ==
  IF k = 0 \/ S = {} THEN 0
  ELSE LET i == CHOOSE x \in S : \A y \in S : players[x].salary <= players[y].salary
       IN players[i].salary + CheapestSum(S \ {i}, k - 1)

\* no lineup of the template costs less than this
CheapestCost == CheapestSum(1..Len(players), Len(rosterCfg.slots))

\* C24: a cap override lower than the cost of every feasible lineup, an
\* override of 0 included, is enforced as given: the optimizer returns no
\* lineup (null in single mode, an empty list in multi mode).
C24_OverrideEnforced ==
  (pc = "done" /\ req.salaryCap < CheapestCost) => NoLineup

\* an override of 0 answered by a lineup, whose cost is above 0
C24_ZeroOverridden ==
  /\ pc = "done" /\ req.salaryCap = 0
  /\ Single /\ result # Null /\ result[1].usedSalary > req.salaryCap

\* a positive override below every lineup's cost, answered by no lineup
C24_LowEnforced ==
  pc = "done" /\ req.salaryCap = 20 /\ req.salaryCap < CheapestCost /\ NoLineup

(***************************************************************************)
(* The earlier generator: optimizeWithRules (src/unnamed/part_003, lines   *)
(* 242-320; src/unnamed/part_002, lines 214-322, which adds a greedy       *)
(* fallback) and generateLineups over it (part_003, lines 322-337;         *)
(* part_002, lines 325-353).                                               *)
(***************************************************************************)
\* noise * (0.6 + Math.random() * 0.8) for the draw k
OldNsz(k) == RatMul(noise, Rat(6 * RandomHalfGrid + 4 * k, 10 * RandomHalfGrid))

\* players.map(p => ({...p, projAdj: p.proj + (noise ? rnd(-noise, noise) : 0)}))
OldNoisy(nsz, draws) ==
  [i \in 1..Len(players) |->
     [id |-> players[i].id, team |-> players[i].team, pos |-> players[i].pos,
      proj |-> players[i].proj, salary |-> players[i].salary,
      projAdj |-> players[i].proj + (IF nsz.num # 0 THEN rnd(nsz, draws[i]) ELSE 0)]]

\* the sort by projAdj / max(1, salary), then by projAdj (a stable sort
\* without jitter)
OldSorted(list) == CHOOSE r \in sortByValue(list, Zero) : TRUE

\* byPos: the players of each of the five positions, sorted
OldByPos(noisy) ==
  [pos \in {"QB", "RB", "WR", "TE", "DST"} |-> OldSorted(GroupByPos(noisy, pos))]

\* the candidate stacks of a quarterback: each of the first 6 receivers of
\* his team, then the pairs of one of the first 4 and another of the first 6
OldStacks(rec) ==
  LET n6 == Min(6, Len(rec))
      n4 == Min(4, Len(rec))
      pairs == [k \in 1..(n4 * n6) |-> <<rec[((k - 1) \div n6) + 1], rec[((k - 1) % n6) + 1]>>]
  IN [i \in 1..n6 |-> <<rec[i]>>] \o SelectSeq(pairs, LAMBDA st : st[1].id # st[2].id)

RECURSIVE addBest(_, _, _, _, _, _)
\* addBest(list, count) from the i-th player of list on, with st the lineup
\* and the salary used so far: the lineup, the salary and the count left
addBest(list, i, count, st, dstTeam, salaryCap) ==
  IF i > Len(list) \/ count = 0 THEN [lineup |-> st.lineup, used |-> st.used, count |-> count]
  ELSE LET p == list[i]
       IN IF \/ p.id \in {st.lineup[j].id : j \in 1..Len(st.lineup)}
             \/ p.team = dstTeam
             \/ st.used + p.salary > salaryCap
          THEN addBest(list, i + 1, count, st, dstTeam, salaryCap)
          ELSE addBest(list, i + 1, count - 1,
                       [lineup |-> Append(st.lineup, p), used |-> st.used + p.salary],
                       dstTeam, salaryCap)

\* the candidate record of a lineup
OldCandidate(l, u, salaryCap) ==
  [salaryCap |-> salaryCap, usedSalary |-> u,
   totalProj |-> fmt(SeqSum([i \in 1..Len(l) |-> ProjOf(l[i])])),
   lineup |-> StripAdj(l)]

\* one pass of the stack loop: the candidate built around qb and stack, or
\* Null where the pass ends in a continue
OldPass(byPos, qb, stack, salaryCap) ==
  LET l0 == <<qb>> \o stack
      u0 == SeqSum([i \in 1..Len(l0) |-> l0[i].salary])
      dsts == SelectSeq(byPos["DST"], LAMBDA d : \A i \in 1..Len(l0) : l0[i].team # d.team)
  IN IF u0 > salaryCap THEN Null
     ELSE IF dsts = <<>> THEN Null
     ELSE IF u0 + dsts[1].salary > salaryCap THEN Null
     ELSE
       LET dst == dsts[1]
           inStack(pos) == Cardinality({i \in 1..Len(stack) : stack[i].pos = pos})
           s1 == [lineup |-> Append(l0, dst), used |-> u0 + dst.salary]
           rb == addBest(byPos["RB"], 1, 2, s1, dst.team, salaryCap)
           wr == addBest(byPos["WR"], 1, 3 - inStack("WR"), rb, dst.team, salaryCap)
           te == addBest(byPos["TE"], 1, 1 - inStack("TE"), wr, dst.team, salaryCap)
           flex == addBest(byPos["RB"] \o byPos["WR"] \o byPos["TE"], 1, 1, te,
                           dst.team, salaryCap)
       IN IF rb.count > 0 \/ wr.count > 0 \/ te.count > 0 THEN Null
          ELSE IF Len(flex.lineup) # 9 THEN Null
          ELSE Some(OldCandidate(flex.lineup, flex.used, salaryCap))

RECURSIVE OldPasses(_, _, _, _)
\* the passes of the loops over qbList (its first limit entries) and the
\* stacks of each quarterback, in the order the loops run them
OldPasses(byPos, q, limit, salaryCap) ==
  IF q > Min(limit, Len(byPos["QB"])) THEN <<>>
  ELSE LET qb == byPos["QB"][q]
           rec == SelectSeq(byPos["WR"] \o byPos["TE"], LAMBDA x : x.team = qb.team)
           stacks == OldStacks(rec)
       IN [k \in 1..Len(stacks) |-> OldPass(byPos, qb, stacks[k], salaryCap)]
          \o OldPasses(byPos, q + 1, limit, salaryCap)

\* best after the loops: the first candidate no other candidate beats on
\* totalProj, or Null
OldBest(passes) ==
  LET built == {i \in 1..Len(passes) : passes[i] # Null}
  IN IF built = {} THEN Null
     ELSE passes[CHOOSE i \in built :
                   \A j \in built : \/ passes[j][1].totalProj < passes[i][1].totalProj
                                    \/ (passes[j][1].totalProj = passes[i][1].totalProj /\ i <= j)]

RECURSIVE OldFill(_, _, _, _, _)
\* part_002's fallback, from the k-th entry of order on: the first player of
\* sorted who passes wanted[k] and is not taken is added where the cap allows
OldFill(sorted, wanted, k, st, salaryCap) ==
  IF k > Len(wanted) THEN st
  ELSE LET ids == {st.lineup[j].id : j \in 1..Len(st.lineup)}
           pick == SelectFirst(sorted, {i \in 1..Len(sorted) :
                                          sorted[i].pos \in wanted[k] /\ sorted[i].id \notin ids})
       IN IF pick = Null \/ st.used + pick[1].salary > salaryCap
          THEN OldFill(sorted, wanted, k + 1, st, salaryCap)
          ELSE OldFill(sorted, wanted, k + 1,
                       [lineup |-> Append(st.lineup, pick[1]), used |-> st.used + pick[1].salary],
                       salaryCap)

\* the positions the fallback fills, the flex pick last
OldOrder ==
  << {"QB"}, {"RB"}, {"RB"}, {"WR"}, {"WR"}, {"WR"}, {"TE"}, {"DST"}, {"RB", "WR", "TE"} >>

\* optimizeWithRules(players, salaryCap, nsz) for the given draws: part_003's
\* (qbList of 15, null when nothing is built) or part_002's (qbList of 12,
\* the greedy fallback when nothing is built)
optimizeWithRules(salaryCap, nsz, draws, fallback) ==
  LET noisy == OldNoisy(nsz, draws)
      built == OldBest(OldPasses(OldByPos(noisy), 1, IF fallback THEN 12 ELSE 15, salaryCap))
  IN IF built # Null \/ ~fallback THEN built
     ELSE LET st == OldFill(OldSorted(noisy), OldOrder, 1, [lineup |-> <<>>, used |-> 0],
                            salaryCap)
          IN Some(OldCandidate(st.lineup, st.used, salaryCap))

\* the test of the result without its length check
OldUsableAnyLength(res) == res # Null

\* if(!res || !res.lineup || res.lineup.length !== 9) continue, negated
OldUsable(res) == res # Null /\ Len(res[1].lineup) = 9

OldCounts == 0..MaxWork
\* 30 is a cap no lineup of the pool fits
OldCaps == {30, 50}

\* generateLineups(players, {salaryCap, count, noise}) is called
OldGenerate ==
  /\ pc = "idle"
  /\ \E c \in OldCounts, sc \in OldCaps, ns \in Noises, fb \in BOOLEAN :
       /\ req' = [salaryCap |-> sc, count |-> c, fallback |-> fb]
       /\ noise' = ns
  /\ players' = NFLPool
  /\ out' = <<>>
  /\ seen' = {}
  /\ attempt' = 0
  /\ calls' = <<>>
  /\ pc' = "old_loop"
  /\ UNCHANGED <<temperature, cand, grown, best, poolByPos, taken, teamCount, lineup,
                 used, slot, result, produced>>
  /\ UNCHANGED loaderVars

\* one turn of the while loop: tries (attempt) is counted, optimizeWithRules
\* is invoked (calls records the invocation) and its result is pushed unless
\* it is unusable or seen
OldTurn ==
  /\ pc = "old_loop"
  /\ Len(out) < req.count /\ attempt < req.count * 12
  /\ attempt' = attempt + 1
  /\ calls' = Append(calls, attempt + 1)
  /\ \E k \in RandomDraws, draws \in NoiseDraws :
       LET res == optimizeWithRules(req.salaryCap, OldNsz(k), draws, req.fallback)
       IN IF ~OldUsable(res) THEN UNCHANGED <<out, seen>>
          ELSE IF uniqKey(res[1].lineup) \in seen THEN UNCHANGED <<out, seen>>
          ELSE /\ seen' = seen \cup {uniqKey(res[1].lineup)}
               /\ out' = Append(out, res[1])
  /\ UNCHANGED <<players, req, pc, noise, temperature, cand, grown, best, poolByPos,
                 taken, teamCount, lineup, used, slot, result, produced>>
  /\ UNCHANGED loaderVars

\* the loop test fails: out is sorted and returned
OldReturn ==
  /\ pc = "old_loop"
  /\ ~(Len(out) < req.count /\ attempt < req.count * 12)
  /\ result' = Some(SortOut(out))
  /\ pc' = "old_done"
  /\ UNCHANGED <<players, req, noise, temperature, out, seen, cand, grown, attempt, best,
                 poolByPos, taken, teamCount, lineup, used, slot, produced, calls>>
  /\ UNCHANGED loaderVars

NextOld ==
  \/ OldGenerate
  \/ OldTurn
  \/ OldReturn

OldSpec == Init /\ [][NextOld]_vars

\* in a call of the earlier generator: at most count * 12 invocations; at the
\* return either count lineups or count * 12 tries, and every lineup returned
\* has 9 members and an id-set of its own
OldBounded ==
  /\ pc \in {"old_loop", "old_done"} =>
       /\ Len(calls) <= req.count * 12
       /\ Len(calls) = attempt
  /\ pc = "old_done" =>
       /\ Len(result[1]) = req.count \/ attempt = req.count * 12
       /\ \A i \in 1..Len(result[1]) : Len(result[1][i].lineup) = 9
       /\ \A i, j \in 1..Len(result[1]) :
             i # j => Ids(result[1][i].lineup) # Ids(result[1][j].lineup)

\* a step of a call in its loop is the return or one more invocation, so
\* that the call returns after at most count * 12 invocations
OldProgress ==
  pc = "old_loop" =>
     \/ pc' = "old_done"
     \/ pc' = "old_loop" /\ Len(calls') = Len(calls) + 1

\* C25: one call of the earlier generateLineups invokes optimizeWithRules at
\* most count * 12 times and then returns, whatever the pool: the loop ends
\* when count distinct lineups are collected or the try counter reaches
\* count * 12, and every lineup returned has 9 members and a distinct id-set.
C25_Ceiling == []OldBounded /\ [][OldProgress]_vars

\* the ceiling stops a call for 2 lineups whose every invocation is answered
\* by the same lineup: 24 invocations, one lineup returned
C25_Witness ==
  /\ pc = "old_done" /\ req.count = 2
  /\ Len(calls) = 24 /\ Len(result[1]) = 1

\* a call that collects its 2 lineups before the ceiling
OldCollected ==
  /\ pc = "old_done" /\ req.count = 2
  /\ Len(calls) < 24 /\ Len(result[1]) = 2

\* the fallback answers with a lineup of fewer than 9 members
OldShort ==
  /\ pc = "old_loop" /\ req.fallback
  /\ \E k \in RandomDraws, draws \in NoiseDraws :
       LET res == optimizeWithRules(req.salaryCap, OldNsz(k), draws, TRUE)
       IN res # Null /\ Len(res[1].lineup) < 9

(***************************************************************************)
(* The multi-sport builder: buildLineup (src/backend/server.js, lines      *)
(* 489-585), with its sortByValue (lines 479-487), which ranks by proj.    *)
(***************************************************************************)
\* sortByValue of server.js: the orders of arr by proj / max(1, salary) with
\* jitter, then by proj
ServerSort(arr, t) ==
  LET keys == [i \in 1..Len(arr) |-> [id |-> i, projAdj |-> arr[i].proj, salary |-> arr[i].salary]]
  IN { [j \in 1..Len(arr) |-> arr[o[j].id]] : o \in sortByValue(keys, t) }

\* canAdd(p) of lines 505-518, with l the lineup so far (taken, used and
\* teamCount are the ids, the salaries and the teams of l)
serverCanAdd(p, l) ==
  /\ p.id \notin {l[i].id : i \in 1..Len(l)}
  /\ ~(SeqSum([i \in 1..Len(l) |-> l[i].salary]) + p.salary > cap)
  /\ LET cnt == Cardinality({i \in 1..Len(l) : l[i].team = p.team}) + 1
     IN ~(req.maxPerTeam # 0 /\ cnt > req.maxPerTeam)
  /\ ~(/\ rosterCfg.avoidDstConflict /\ p.pos # "DST"
       /\ \E i \in 1..Len(l) : l[i].pos = "DST" /\ l[i].team = p.team)
  /\ ~(/\ rosterCfg.avoidDstConflict /\ p.pos = "DST"
       /\ \E i \in 1..Len(l) : l[i].pos # "DST" /\ l[i].team = p.team)

\* candidates.find(p => canAdd(p))
ServerFind(list, l) == SelectFirst(list, {i \in 1..Len(list) : serverCanAdd(list[i], l)})

\* the locals of an attempt that hold the lineup l
ServerLocals(l) ==
  /\ lineup' = l
  /\ taken' = {l[i].id : i \in 1..Len(l)}
  /\ used' = SeqSum([i \in 1..Len(l) |-> l[i].salary])
  /\ teamCount' = [tm \in {l[i].team : i \in 1..Len(l)} |->
                     Cardinality({i \in 1..Len(l) : l[i].team = tm})]

ServerCaps == {0, 47}
ServerTries == {1, 2}
ServerRequests ==
  [sport : Sports, salaryCap : ServerCaps, maxPerTeam : {3}, minTries : ServerTries,
   dstFirst : {FALSE}]

\* buildLineup(players, sportCfg, {salaryCap, noise, temperature, maxPerTeam, minTries})
\* is called
ServerBuild ==
  /\ pc = "idle"
  /\ \E r \in ServerRequests, ns \in Noises, t \in Temperatures :
       /\ req' = r
       /\ players' = PoolOf(r.sport)
       /\ noise' = ns
       /\ temperature' = t
  /\ pc' = "srv_pools"
  /\ UNCHANGED <<buildVars, genVars, result, histVars>>
  /\ UNCHANGED loaderVars

\* the noise draws of one call: one Math.random() per player for pools and
\* one more per player for allPool
ServerDraws ==
  LET n == Len(players)
      off == RandomDraws \ {Mid}
  IN IF noise.num = 0 THEN {[i \in 1..(2 * n) |-> Mid]}
     ELSE UNION { { [i \in 1..(2 * n) |-> IF i \in S THEN f[i] ELSE Mid] : f \in [S -> off] } :
                    S \in SubsetsUpTo(1..(2 * n), MaxNoised) }

\* lines 491-497: pools and allPool, each from its own noise draws
ServerPools ==
  /\ pc = "srv_pools"
  /\ \E d \in ServerDraws :
       \E all \in ServerSort(NoisedPool([i \in 1..Len(players) |-> d[Len(players) + i]]),
                             temperature) :
          poolByPos' = [pools |-> NoisedPool(d), allPool |-> all]
  /\ best' = Null
  /\ attempt' = 0
  /\ pc' = "srv_attempt"
  /\ UNCHANGED <<players, req, noise, temperature, genVars, taken, teamCount, lineup,
                 used, slot, result, histVars>>
  /\ UNCHANGED loaderVars

\* lines 499-504: an attempt starts with empty locals
ServerBegin ==
  /\ pc = "srv_attempt"
  /\ attempt < req.minTries
  /\ ServerLocals(<<>>)
  /\ slot' = 1
  /\ pc' = IF rosterCfg.stack # Null /\ rosterCfg.stack[1].needQBStack
           THEN "srv_stack" ELSE "srv_slot"
  /\ UNCHANGED <<players, req, noise, temperature, genVars, attempt, best, poolByPos,
                 result, histVars>>
  /\ UNCHANGED loaderVars

RECURSIVE ServerReceivers(_, _, _, _)
\* lines 533-537, from the i-th receiver on: the lineup and the number added
ServerReceivers(recSorted, i, added, l) ==
  IF i > Len(recSorted) \/ added >= rosterCfg.stack[1].maxReceivers
  THEN [lineup |-> l, added |-> added]
  ELSE IF serverCanAdd(recSorted[i], l)
       THEN IF added + 1 >= rosterCfg.stack[1].minReceivers
            THEN [lineup |-> Append(l, recSorted[i]), added |-> added + 1]
            ELSE ServerReceivers(recSorted, i + 1, added + 1, Append(l, recSorted[i]))
       ELSE ServerReceivers(recSorted, i + 1, added, l)

\* lines 524-544: the quarterback, his receivers and the DST are picked
\* first; a continue ends the attempt
ServerStack ==
  /\ pc = "srv_stack"
  /\ LET pools == poolByPos.pools
         giveUp == /\ ServerLocals(<<>>)
                   /\ attempt' = attempt + 1
                   /\ pc' = "srv_attempt"
     IN \E qbs \in ServerSort(GroupByPos(pools, "QB"), temperature),
           k \in RandomDraws :
          LET top == Slice(qbs, 12)
              at == ((k * Max(1, Len(top))) \div (2 * RandomHalfGrid)) + 1
          IN IF at > Len(top) \/ ~serverCanAdd(top[at], <<>>) THEN giveUp
             ELSE
               LET qb == top[at]
                   recPool == SelectSeq(GroupByPos(pools, "WR") \o GroupByPos(pools, "TE"),
                                        LAMBDA x : x.team = qb.team)
               IN \E recSorted \in ServerSort(recPool, temperature),
                     dstSorted \in ServerSort(GroupByPos(pools, "DST"), temperature) :
                    LET rec == ServerReceivers(recSorted, 1, 0, <<qb>>)
                        dst == ServerFind(dstSorted, rec.lineup)
                    IN IF rec.added < rosterCfg.stack[1].minReceivers \/ dst = Null
                       THEN giveUp
                       ELSE /\ ServerLocals(Append(rec.lineup, dst[1]))
                            /\ attempt' = attempt
                            /\ pc' = "srv_slot"
  /\ UNCHANGED <<players, req, noise, temperature, genVars, best, poolByPos, slot,
                 result, histVars>>
  /\ UNCHANGED loaderVars

\* lines 547-557: one slot of the template; a slot one of whose positions the
\* lineup already holds is skipped unless it is RB2, WR2 or WR3
ServerSlot ==
  /\ pc = "srv_slot"
  /\ LET s == rosterCfg.slots[slot]
         allowed == SeqToSet(s.allow)
         have == Cardinality({i \in 1..Len(lineup) : lineup[i].pos \in allowed})
         open == SelectSeq(poolByPos.allPool,
                           LAMBDA p : p.pos \in allowed /\ p.id \notin taken)
     IN IF have >= 1 /\ s.name \notin {"RB2", "WR2", "WR3"}
        THEN ServerLocals(lineup)
        ELSE \E candidates \in ServerSort(open, temperature) :
               LET pick == ServerFind(candidates, lineup)
               IN IF pick = Null THEN ServerLocals(lineup)
                  ELSE ServerLocals(Append(lineup, pick[1]))
  /\ slot' = slot + 1
  /\ pc' = IF slot = Len(rosterCfg.slots) THEN "srv_fill" ELSE "srv_slot"
  /\ UNCHANGED <<players, req, noise, temperature, genVars, attempt, best, poolByPos,
                 result, histVars>>
  /\ UNCHANGED loaderVars

\* the players the while loop of lines 560-565 can still add
ServerOpen == SelectSeq(poolByPos.allPool, LAMBDA p : p.id \notin taken)

\* lines 560-565: one turn of the loop that tops the lineup up from the best
\* available players, of any position
ServerFill ==
  /\ pc = "srv_fill"
  /\ Len(lineup) < Len(rosterCfg.slots)
  /\ \E candidates \in ServerSort(ServerOpen, temperature) :
       LET pick == ServerFind(candidates, lineup)
       IN /\ pick # Null
          /\ ServerLocals(Append(lineup, pick[1]))
  /\ UNCHANGED <<players, req, pc, noise, temperature, genVars, attempt, best, poolByPos,
                 slot, result, histVars>>
  /\ UNCHANGED loaderVars

\* lines 567-581: the loop is over; the length and the stack are checked and
\* the candidate is scored against best
ServerEnd ==
  /\ pc = "srv_fill"
  /\ Len(lineup) >= Len(rosterCfg.slots) \/ ServerFind(ServerOpen, lineup) = Null
  /\ LET qbAt == {i \in 1..Len(lineup) : lineup[i].pos = "QB"}
         stacked ==
           IF rosterCfg.stack # Null /\ rosterCfg.stack[1].needQBStack
           THEN /\ qbAt # {}
                /\ LET qb == lineup[CHOOSE i \in qbAt : \A j \in qbAt : i <= j]
                   IN Cardinality({i \in 1..Len(lineup) :
                                     /\ lineup[i].pos \in {"WR", "TE"}
                                     /\ lineup[i].team = qb.team})
                        >= rosterCfg.stack[1].minReceivers
           ELSE TRUE
         candidate == [usedSalary |-> used, totalProj |-> TotalProj(lineup),
                       lineup |-> StripAdj(lineup)]
     IN best' = IF /\ Len(lineup) = Len(rosterCfg.slots)
                   /\ stacked
                   /\ Better(candidate, best)
                THEN Some(candidate) ELSE best
  /\ attempt' = attempt + 1
  /\ pc' = "srv_attempt"
  /\ UNCHANGED <<players, req, noise, temperature, genVars, poolByPos, taken, teamCount,
                 lineup, used, slot, result, histVars>>
  /\ UNCHANGED loaderVars

\* line 584: return best
ServerReturn ==
  /\ pc = "srv_attempt"
  /\ attempt >= req.minTries
  /\ result' = best
  /\ pc' = "srv_done"
  /\ UNCHANGED <<players, req, noise, temperature, genVars, buildVars, histVars>>
  /\ UNCHANGED loaderVars

NextServer ==
  \/ ServerBuild
  \/ ServerPools
  \/ ServerBegin
  \/ ServerStack
  \/ ServerSlot
  \/ ServerFill
  \/ ServerEnd
  \/ ServerReturn

ServerSpec == Init /\ [][NextServer]_vars

\* the members of l at the positions pos
AtPos(l, pos) == {i \in 1..Len(l) : l[i].pos = pos}

\* C26: every lineup buildLineup returns can be matched one-to-one onto the
\* slots of the template, each member at a slot that allows its position; an
\* NFL lineup has exactly one QB and exactly one DST.
C26_SlotsMatched ==
  (pc = "srv_done" /\ result # Null) =>
     LET l == result[1].lineup
     IN /\ Assignable(rosterCfg.slots, l, 1..Len(l))
        /\ req.sport = "NFL" =>
             Cardinality(AtPos(l, "QB")) = 1 /\ Cardinality(AtPos(l, "DST")) = 1

\* an NFL lineup returned with two quarterbacks
ServerTwoQB ==
  /\ pc = "srv_done" /\ result # Null /\ req.sport = "NFL"
  /\ Cardinality(AtPos(result[1].lineup, "QB")) = 2

\* an NFL lineup returned with two DSTs
ServerTwoDST ==
  /\ pc = "srv_done" /\ result # Null /\ req.sport = "NFL"
  /\ Cardinality(AtPos(result[1].lineup, "DST")) = 2

\* a lineup returned that does match the slots
ServerMatched ==
  /\ pc = "srv_done" /\ result # Null
  /\ Assignable(rosterCfg.slots, result[1].lineup, 1..Len(result[1].lineup))

(***************************************************************************)
(* Loading the pool: parseDKCsvToPlayers and loadDKFromUrl (part_000,      *)
(* lines 81-164), refreshNflverse and ensureFresh (lines 290-326) and the  *)
(* admin routes (lines 529-566).  A fetch is one await: the call that      *)
(* waits for it is a task, and other calls run until it resumes.           *)
(***************************************************************************)
ADMIN_TOKEN == "admin-token"
Tokens == {ADMIN_TOKEN, "other-token", ""}
Urls == {"", "dk.csv"}
\* REFRESH_MS in periods of now: a pool loaded in an earlier period is stale
REFRESH_MS == 0
TRY_SEASONS == <<"NOW_YEAR", "NOW_YEAR - 1">>

detectSportFromPositions(posSet) ==
  LET nfl == posSet \cap {"QB", "RB", "WR", "TE", "DST"} # {}
      nba == posSet \cap {"PG", "SG", "SF", "PF", "C", "G", "F", "UTIL"} # {}
  IN IF nba /\ ~nfl THEN "NBA"
     ELSE IF nfl /\ ~nba THEN "NFL"
     ELSE IF nba THEN "NBA"
     ELSE "NFL"

\* a row of a DK CSV: id, primary position ("" when the row has none), salary,
\* projection and whether isInjuredDK holds of it
Row(id, pos, salary, proj, injured) ==
  [id |-> id, pos |-> pos, salary |-> salary, proj |-> proj, injured |-> injured]

\* parseDKCsvToPlayers: rows without a position are skipped before posSet,
\* injured rows and rows without a salary after it; of the rows of one id the
\* first of the highest projection is kept, at the place of the first; every
\* player gets the sport detected
parseDKCsvToPlayers(csvText) ==
  LET rows == SelectSeq(csvText, LAMBDA r : r.pos # "")
      posSet == {rows[i].pos : i \in 1..Len(rows)}
      kept == SelectSeq(rows, LAMBDA r : ~r.injured /\ r.salary # 0)
      same(i) == {j \in 1..Len(kept) : kept[j].id = kept[i].id}
      firsts == {i \in 1..Len(kept) : \A j \in same(i) : i <= j}
      winner(i) == CHOOSE j \in same(i) :
                     \A k \in same(i) : \/ kept[k].proj < kept[j].proj
                                        \/ (kept[k].proj = kept[j].proj /\ j <= k)
      place(i) == Cardinality({j \in firsts : j <= i})
      sport == detectSportFromPositions(posSet)
  IN [players |-> [n \in 1..Cardinality(firsts) |->
                     LET w == kept[winner(CHOOSE i \in firsts : place(i) = n)]
                     IN [id |-> w.id, pos |-> w.pos, salary |-> w.salary,
                         proj |-> w.proj, sport |-> sport]],
      sport |-> sport]

NflCsv == << Row(1, "QB", 5, 10, FALSE), Row(2, "DST", 3, 5, FALSE), Row(1, "QB", 5, 12, FALSE) >>
NbaCsv == << Row(3, "PG", 5, 10, FALSE), Row(4, "C", 4, 8, FALSE) >>
\* both sports' positions: the sport detected is NBA
MixedCsv == << Row(5, "PG", 5, 10, FALSE), Row(6, "QB", 6, 0, FALSE), Row(7, "", 5, 9, FALSE) >>
\* no player is left
InjuredCsv == << Row(8, "QB", 5, 10, TRUE), Row(9, "WR", 0, 7, FALSE) >>
CsvTexts == {<<>>, NflCsv, NbaCsv, MixedCsv, InjuredCsv}

\* fetchSeason(season): it throws (Null), or returns the players it built,
\* none or some, each with sport "NFL"
FetchSeasonOutcomes(season) ==
  {Null, Some(<<>>),
   Some(<< [id |-> IF season = TRY_SEASONS[1] THEN 21 ELSE 22, pos |-> "QB", salary |-> 6,
            proj |-> 11, sport |-> "NFL"] >>)}

\* source: `nflverse ${season}`
NflverseSource(season) ==
  IF season = TRY_SEASONS[1] THEN "nflverse NOW_YEAR" ELSE "nflverse NOW_YEAR - 1"

\* the four assignments without the one of CURRENT_SPORT
InstallPoolOnly(list, sport, source) ==
  /\ PLAYERS' = list
  /\ CURRENT_SPORT' = CURRENT_SPORT
  /\ LAST_REFRESH' = Some(now)
  /\ LAST_SOURCE' = source

\* lines 159-162, 297-300 and 552-555: the pool, the sport, the time and the
\* source are assigned in one run of synchronous code
Install(list, sport, source) ==
  /\ PLAYERS' = list
  /\ CURRENT_SPORT' = sport
  /\ LAST_REFRESH' = Some(now)
  /\ LAST_SOURCE' = source

\* the call that ended: its name, the branch of ensureFresh, its token, how
\* it was answered or settled and what became of its load
Ended(op, branch, token, status, load) ==
  [op |-> op, branch |-> branch, token |-> token, status |-> status, load |-> load]

\* a call starts to wait for a fetch
Spawn(op, branch, load, token) ==
  /\ Cardinality(tasks) < MaxTasks
  /\ LET free == CHOOSE i \in 1..MaxTasks : \A t \in tasks : t.id # i
     IN tasks' = tasks \cup {[id |-> free, op |-> op, branch |-> branch, load |-> load,
                              season |-> 1, token |-> token, before |-> FALSE]}

\* Date.now() - Date.parse(LAST_REFRESH || 0) > REFRESH_MS
Stale == LAST_REFRESH = Null \/ now - LAST_REFRESH[1] > REFRESH_MS

\* ensureFresh up to its await, lines 308-322
ensureFreshStart ==
  IF PLAYERS = <<>>
  THEN /\ Spawn("ensureFresh", "empty", IF DK_SALARIES_URL' # "" THEN "dk" ELSE "nflverse", "")
       /\ UNCHANGED last
  ELSE IF Stale
  THEN /\ Spawn("ensureFresh", "stale",
                IF LAST_SOURCE = "draftkings" /\ DK_SALARIES_URL' # "" THEN "dk" ELSE "nflverse", "")
       /\ UNCHANGED last
  ELSE /\ last' = Ended("ensureFresh", "fresh", "", "resolved", "none")
       /\ UNCHANGED tasks

\* the process starts: DK_SALARIES_URL is read (line 15) and ensureFresh is
\* called (line 326)
StartServer ==
  /\ DK_SALARIES_URL = "unread"
  /\ DK_SALARIES_URL' \in Urls
  /\ ensureFreshStart
  /\ UNCHANGED <<poolVars, now, optimizerVars>>

\* ensureFresh is called by the timer of line 325 or by a route (lines 482,
\* 490, 519)
EnsureFresh ==
  /\ DK_SALARIES_URL # "unread"
  /\ DK_SALARIES_URL' = DK_SALARIES_URL
  /\ ensureFreshStart
  /\ UNCHANGED <<poolVars, now, optimizerVars>>

\* more than REFRESH_MS passes
Tick ==
  /\ DK_SALARIES_URL # "unread"
  /\ now < MaxTime
  /\ now' = now + 1
  /\ UNCHANGED <<poolVars, DK_SALARIES_URL, tasks, last, optimizerVars>>

\* the catch of ensureFresh with the assignments of its first branch in both
EnsureFailedSame(branch) ==
  /\ LAST_REFRESH' = Some(now)
  /\ LAST_SOURCE' = "empty"
  /\ UNCHANGED <<PLAYERS, CURRENT_SPORT>>

\* the catch blocks of ensureFresh, lines 312-315 and 322
EnsureFailed(branch) ==
  IF branch = "empty"
  THEN /\ LAST_REFRESH' = Some(now)
       /\ LAST_SOURCE' = "empty"
       /\ UNCHANGED <<PLAYERS, CURRENT_SPORT>>
  ELSE UNCHANGED poolVars

\* the load of the task t has thrown: ensureFresh catches, the admin routes
\* answer 500 (lines 536 and 563)
Thrown(t) ==
  /\ tasks' = tasks \ {t}
  /\ IF t.op = "ensureFresh"
     THEN /\ EnsureFailed(t.branch)
          /\ last' = Ended(t.op, t.branch, t.token, "resolved", "failed")
     ELSE /\ UNCHANGED poolVars
          /\ last' = Ended(t.op, t.branch, t.token, "500", "failed")

\* the load of the task t has assigned the pool: ensureFresh returns, the
\* admin routes answer 200; the tasks that wait while POST /api/admin/dk
\* installs its pool are marked (before), a mark the program does not keep
Loaded(t) ==
  /\ tasks' = IF t.op = "adminDk"
              THEN {[u EXCEPT !.before = TRUE] : u \in tasks \ {t}}
              ELSE tasks \ {t}
  /\ last' = Ended(t.op, t.branch, t.token,
                   IF t.op = "ensureFresh" THEN "resolved" ELSE "200", "loaded")

\* the fetch of a task ends and the task resumes: loadDKFromUrl (lines
\* 153-164) or the loop of refreshNflverse (lines 290-304)
FetchDone ==
  /\ \E t \in tasks :
       IF t.load = "dk"
       THEN \E o \in {Null} \cup {Some(c) : c \in CsvTexts} :
              IF o = Null \/ parseDKCsvToPlayers(o[1]).players = <<>>
              THEN Thrown(t)
              ELSE /\ Install(parseDKCsvToPlayers(o[1]).players,
                              parseDKCsvToPlayers(o[1]).sport, "draftkings")
                   /\ Loaded(t)
       ELSE \E o \in FetchSeasonOutcomes(TRY_SEASONS[t.season]) :
              IF o # Null /\ o[1] # <<>>
              THEN /\ Install(o[1], "NFL", NflverseSource(TRY_SEASONS[t.season]))
                   /\ Loaded(t)
              ELSE IF t.season < Len(TRY_SEASONS)
              THEN /\ tasks' = (tasks \ {t}) \cup {[t EXCEPT !.season = t.season + 1]}
                   /\ UNCHANGED <<poolVars, last>>
              ELSE Thrown(t)
  /\ UNCHANGED <<DK_SALARIES_URL, now, optimizerVars>>

\* the token test without the comparison
AuthorizedAny(token) == TRUE

\* token !== ADMIN_TOKEN, negated (lines 530 and 543)
Authorized(token) == token = ADMIN_TOKEN

\* POST /api/admin/refresh, lines 529-538
AdminRefresh ==
  /\ DK_SALARIES_URL # "unread"
  /\ \E token \in Tokens :
       IF ~Authorized(token)
       THEN /\ last' = Ended("adminRefresh", "", token, "401", "none")
            /\ UNCHANGED tasks
       ELSE /\ Spawn("adminRefresh", "", "nflverse", token)
            /\ UNCHANGED last
  /\ UNCHANGED <<poolVars, DK_SALARIES_URL, now, optimizerVars>>

\* POST /api/admin/dk, lines 541-566
AdminDk ==
  /\ DK_SALARIES_URL # "unread"
  /\ \E token \in Tokens, rawCsv \in CsvTexts, url \in Urls :
       IF ~Authorized(token)
       THEN /\ last' = Ended("adminDk", "", token, "401", "none")
            /\ UNCHANGED <<poolVars, tasks>>
       ELSE IF rawCsv # <<>>
       THEN IF parseDKCsvToPlayers(rawCsv).players = <<>>
            THEN /\ last' = Ended("adminDk", "", token, "500", "failed")
                 /\ UNCHANGED <<poolVars, tasks>>
            ELSE /\ Install(parseDKCsvToPlayers(rawCsv).players,
                            parseDKCsvToPlayers(rawCsv).sport, "draftkings")
                 /\ tasks' = {[u EXCEPT !.before = TRUE] : u \in tasks}
                 /\ last' = Ended("adminDk", "", token, "200", "loaded")
       ELSE IF url # ""
       THEN /\ Spawn("adminDk", "", "dk", token)
            /\ UNCHANGED <<poolVars, last>>
       ELSE /\ last' = Ended("adminDk", "", token, "400", "none")
            /\ UNCHANGED <<poolVars, tasks>>
  /\ UNCHANGED <<DK_SALARIES_URL, now, optimizerVars>>

NextLoader ==
  \/ StartServer
  \/ EnsureFresh
  \/ Tick
  \/ FetchDone
  \/ AdminRefresh
  \/ AdminDk

LoaderSpec == Init /\ [][NextLoader]_vars

\* the step ends a call of ensureFresh whose load has failed
EnsureFails(branch) ==
  /\ \E t \in tasks : t.op = "ensureFresh" /\ t.branch = branch /\ t \notin tasks'
  /\ Cardinality(tasks') < Cardinality(tasks)
  /\ last'.op = "ensureFresh" /\ last'.load = "failed"

\* C27: when ensureFresh runs on a non-empty pool older than the refresh
\* interval and the reload fails, PLAYERS, CURRENT_SPORT, LAST_SOURCE and
\* LAST_REFRESH are left as they are and the call settles without an error;
\* when the pool is empty and the load fails, ensureFresh leaves PLAYERS as
\* it is (empty) and LAST_SOURCE becomes "empty".
C27_FailedReload ==
  [][/\ EnsureFails("stale") => UNCHANGED poolVars /\ last'.status = "resolved"
     /\ EnsureFails("empty") =>
          /\ PLAYERS' = PLAYERS /\ LAST_SOURCE' = "empty"
          /\ last'.status = "resolved"]_vars

\* a DraftKings pool that went stale, a reload that failed, the pool kept
C27_Witness ==
  /\ last.op = "ensureFresh" /\ last.branch = "stale" /\ last.load = "failed"
  /\ PLAYERS # <<>> /\ LAST_SOURCE = "draftkings" /\ LAST_REFRESH = Some(0) /\ now = 1

\* an empty pool whose load failed
EmptyFailed ==
  /\ last.op = "ensureFresh" /\ last.branch = "empty" /\ last.load = "failed"
  /\ PLAYERS = <<>> /\ LAST_SOURCE = "empty"

\* C28: once POST /api/admin/dk has installed a pool, PLAYERS, CURRENT_SPORT
\* and LAST_SOURCE keep it until a load that started after the install
\* completes: a call that waited for its fetch during the install changes
\* none of the three when it resumes.
C28_InstallKept ==
  [][(\E t \in tasks : t.before /\ t \notin tasks') =>
        UNCHANGED <<PLAYERS, CURRENT_SPORT, LAST_SOURCE>>]_vars

\* an nflverse pool in place although the only calls that ended after the
\* install of a DraftKings pool had started before it
Overwritten ==
  /\ last.op = "ensureFresh" /\ last.load = "loaded"
  /\ LAST_SOURCE # "draftkings" /\ PLAYERS # <<>>
  /\ \E t \in tasks : t.before

\* C29: at every await boundary every player of PLAYERS has the sport
\* CURRENT_SPORT, after any sequence of DraftKings loads, nflverse refreshes
\* and failed refreshes.
C29_OneSport ==
  \A i \in 1..Len(PLAYERS) : PLAYERS[i].sport = CURRENT_SPORT

\* an NBA pool in place while a call waits, after a refresh that failed
C29_Witness ==
  /\ PLAYERS # <<>> /\ CURRENT_SPORT = "NBA" /\ PLAYERS[1].sport = "NBA"
  /\ tasks # {}
  /\ last.load = "failed"

\* C30: a request to POST /api/admin/dk or POST /api/admin/refresh whose
\* token differs from ADMIN_TOKEN is answered 401, leaves PLAYERS,
\* CURRENT_SPORT, LAST_SOURCE and LAST_REFRESH unchanged and starts no fetch.
C30_Unauthorized ==
  [][(/\ last' # last
      /\ last'.op \in {"adminDk", "adminRefresh"}
      /\ last'.token # ADMIN_TOKEN) =>
        /\ last'.status = "401"
        /\ UNCHANGED <<poolVars, tasks>>]_vars

\* a request with another token answered 401 while a pool is loaded
C30_Witness ==
  /\ last.op = "adminDk" /\ last.token = "other-token" /\ last.status = "401"
  /\ PLAYERS # <<>>

====
